---- MODULE Spec2Model ----
(***************************************************************************)
(* Change detection and scheduling core of the calendar-to-WhatsApp        *)
(* automation service: CalendarService (fetch, diff, sync),                *)
(* CalendarEventModel (snapshot store), AutomationService (per-user cron   *)
(* jobs, global sweep, manual triggers) and WhatsAppService (fan-out).     *)
(* Time is counted in minutes.                                             *)
(***************************************************************************)
EXTENDS Integers, Sequences, FiniteSets, TLC

(***************************************************************************)
(* Bounds of the model.                                                    *)
(***************************************************************************)
\* clock advances the model explores
MaxTicks == 1
\* edits of the remote calendar the model explores
MaxRemoteOps == 1
\* cron tasks the model lets the scheduler create
MaxTimers == 3
\* setInterval handles the model lets the scheduler create
MaxIntervals == 2
\* changes of a user's configuration row the model explores
MaxConfigOps == 2
\* recipients of one fan-out
MaxRecipients == 3
\* events of one day's fetched list
MaxEvents == 3

(***************************************************************************)
(* Program constants.                                                      *)
(***************************************************************************)
\* calendarService.ts:250  if (minutesDiff > 5)
DebounceMinutes == 5
\* calendarService.ts:213  today + 24 * 60 * 60 * 1000 ms, in minutes
WindowMinutes == 24 * 60
\* calendarService.ts:183  if (durationMinutes >= 15)
MinFreeMinutes == 15

Users == {1, 2}
\* the users whose calendars and passes the detection specification explores
DetectUsers == {1}
EventIds == {"e1", "e2"}
\* a fixed order of the ids, used where two events start at the same time
IdRank(id) == IF id = "e1" THEN 1 ELSE 2
\* slots for the checkUserForChanges calls that may be in flight together
PassIds == {1, 2}
\* slots for the startUserAutomation calls that may be in flight together
StartIds == {1, 2}
\* slots for the sendDailySummary calls the scheduler specification follows
SummaryIds == {1}
\* the callers of CalendarEventModel.upsert that may be in flight together
UpsertCallers == {1, 2}

\* a JavaScript undefined / absent property of a remote event
Undefined == "undefined"
\* an absent timestamp (googleEvent.updated missing)
NoTime == 0 - 1

CONFIRMED == "confirmed"
TENTATIVE == "tentative"
CANCELLED == "cancelled"

\* clock steps explored: exactly the debounce threshold, and one minute more
TickSteps == {DebounceMinutes, DebounceMinutes + 1}
\* every remote event lasts EventLength minutes
EventLength == 6 * DebounceMinutes
\* the start given to a new remote event: "e1" starts within the hour, "e2" so
\* soon that it is in progress one tick later
StartOf(id) == IF id = "e1" THEN 12 * DebounceMinutes ELSE DebounceMinutes

(***************************************************************************)
(* a || b of JavaScript for strings: undefined and "" are falsy.           *)
(***************************************************************************)
OrElse(a, b) == IF a = Undefined \/ a = "" THEN b ELSE a

(***************************************************************************)
(* Sequence helpers.                                                       *)
(***************************************************************************)
Range(s) == { s[i] : i \in 1 .. Len(s) }

\* f with key k set to v (k added when it is not in the domain)
MapSet(f, k, v) == [ x \in DOMAIN f \cup {k} |-> IF x = k THEN v ELSE f[x] ]
\* f without key k
MapDelete(f, k) == [ x \in DOMAIN f \ {k} |-> f[x] ]

\* the elements of a finite set of records, ascending by field start (ties by id)
RECURSIVE SortByStart(_)
SortByStart(S) ==
    IF S = {} THEN << >>
    ELSE LET first == CHOOSE e \in S :
                        \A f \in S : e.start < f.start
                                     \/ (e.start = f.start /\ IdRank(e.id) <= IdRank(f.id))
         IN  << first >> \o SortByStart(S \ {first})

VARIABLES
    now,        \* wall clock, minutes
    ticks,      \* clock advances made
    remote,     \* remote[u]: the events of user u's remote calendar (a set of records)
    remoteOps,  \* edits of the remote calendars made
    store,      \* calendar_events table: a function from <<user_id, event_id>> to its row
    users,      \* users table: users[u] is the configuration row of user u
    configOps,  \* changes of the users table made
    pass,       \* pass[p]: a checkUserForChanges call in flight, or idle
    jobs,       \* AutomationService.jobs: user id -> its cron task (index in timers)
    timers,     \* every cron task created so far: its user and whether it runs
    changeCheckInterval,  \* AutomationService.changeCheckInterval: a handle, 0 = null
    intervals,  \* the setInterval handles that are live
    starts,     \* starts[s]: a startUserAutomation call in flight, or idle
    summ,       \* summ[s]: a sendDailySummary call in flight, or idle
    fan,        \* a WhatsAppService fan-out (sendDailySummary / sendChangeNotification)
    sweep,      \* the checkAllUsersForChanges call in flight, or idle
    trig,       \* the triggerDailySummary / triggerChangeCheck call in flight, or idle
    upserts,    \* upserts[c]: a CalendarEventModel.upsert call of caller c, or idle
    day,        \* the last getTodaySummary computation: its events, free blocks, text
    lastCall,   \* the scheduler call that returned last: its name and its user
    status,     \* the getAutomationStatus call in flight, or idle
    boot        \* the startAllAutomations call in flight, or idle

schedVars == << jobs, timers, changeCheckInterval, intervals, starts, summ >>
detectVars == << now, ticks, remote, remoteOps, store, pass >>
moreVars == << status, boot >>
callVars == << sweep, trig, upserts, day, moreVars >>
vars == << now, ticks, remote, remoteOps, store, users, configOps, pass,
           jobs, timers, changeCheckInterval, intervals, starts, summ, fan,
           sweep, trig, upserts, day, lastCall, status, boot >>

(***************************************************************************)
(* The remote calendar (Google Calendar), an external collaborator.        *)
(***************************************************************************)
RemoteEvent(id, summary, start, t) ==
    [ id |-> id, summary |-> summary, description |-> Undefined,
      location |-> Undefined, dateTime |-> TRUE,
      start |-> start, end |-> start + EventLength,
      status |-> Undefined, attendees |-> << >>, updated |-> t ]

\* calendar.events.list(timeMin, timeMax, singleEvents, orderBy: 'startTime'):
\* the events that end after timeMin and start before timeMax, by start time
EventsList(u, timeMin, timeMax) ==
    SortByStart({ e \in remote[u] : e.end > timeMin /\ e.start < timeMax })

(***************************************************************************)
(* The snapshot store: CalendarEventModel over table calendar_events.      *)
(***************************************************************************)
Key(u, id) == << u, id >>

RowsOf(u) == { store[k] : k \in { kk \in DOMAIN store : kk[1] = u } }

\* rows of a finite set, ascending by start_time (ties by event_id)
RECURSIVE SortByStartTime(_)
SortByStartTime(S) ==
    IF S = {} THEN << >>
    ELSE LET first == CHOOSE r \in S :
                        \A q \in S : r.start_time < q.start_time
                                     \/ (r.start_time = q.start_time
                                         /\ IdRank(r.event_id) <= IdRank(q.event_id))
         IN  << first >> \o SortByStartTime(S \ {first})

\* faulty variant: the query without its date range
findByUserIdAndDateRange_NoRange(u, startDate, endDate) ==
    SortByStartTime({ r \in RowsOf(u) : r.status # CANCELLED })

\* SELECT ... WHERE user_id = $1 AND start_time >= $2 AND start_time < $3
\*   AND status != 'cancelled' ORDER BY start_time ASC
findByUserIdAndDateRange(u, startDate, endDate) ==
    SortByStartTime({ r \in RowsOf(u) : /\ r.start_time >= startDate
                                        /\ r.start_time < endDate
                                        /\ r.status # CANCELLED })

\* faulty variant: every record is built for the same user
EventData_OneUser(u, g) ==
    [ user_id |-> 1, event_id |-> g.id,
      summary |-> OrElse(g.summary, "No Title"),
      description |-> OrElse(g.description, ""),
      location |-> OrElse(g.location, ""),
      start_time |-> g.start, end_time |-> g.end,
      all_day |-> ~g.dateTime, event_type |-> "WORK",
      status |-> OrElse(g.status, CONFIRMED),
      attendees |-> g.attendees ]

\* the eventData record syncEvents builds from a remote event; attendees is the
\* list of the attendees' emails, [] when the event has none; the event type is
\* the literal 'WORK'
EventData(u, g) ==
    [ user_id |-> u, event_id |-> g.id,
      summary |-> OrElse(g.summary, "No Title"),
      description |-> OrElse(g.description, ""),
      location |-> OrElse(g.location, ""),
      start_time |-> g.start, end_time |-> g.end,
      all_day |-> ~g.dateTime, event_type |-> "WORK",
      status |-> OrElse(g.status, CONFIRMED),
      attendees |-> g.attendees ]

\* upsert's comparison of the existing row with the new data; the attendees are
\* compared as JSON.stringify prints them, that is as lists, in their order
HasChanged(existing, d) ==
    \/ existing.summary # d.summary
    \/ existing.description # d.description
    \/ existing.location # d.location
    \/ existing.start_time # d.start_time
    \/ existing.end_time # d.end_time
    \/ existing.status # d.status
    \/ existing.attendees # d.attendees

\* the CHECK constraints of table calendar_events: event_type IN ('WORK',
\* 'PERSONAL', 'FREE') and status IN ('confirmed', 'tentative', 'cancelled')
RowAccepted(d) ==
    /\ d.event_type \in {"WORK", "PERSONAL", "FREE"}
    /\ d.status \in {CONFIRMED, TENTATIVE, CANCELLED}

\* faulty variant: ON CONFLICT DO NOTHING, the existing row is kept
UpsertWrite_DoNothing(st, d, hasChanged, t) ==
    LET k == Key(d.user_id, d.event_id)
        row == [ user_id |-> d.user_id, event_id |-> d.event_id,
                 summary |-> d.summary, description |-> d.description,
                 location |-> d.location, start_time |-> d.start_time,
                 end_time |-> d.end_time, all_day |-> d.all_day,
                 event_type |-> d.event_type,
                 status |-> d.status, attendees |-> d.attendees,
                 last_modified |-> t ]
    IN  IF k \in DOMAIN st THEN st
        ELSE [ kk \in DOMAIN st \cup {k} |-> IF kk = k THEN row ELSE st[kk] ]

\* INSERT ... ON CONFLICT (user_id, event_id) DO UPDATE SET ..., last_modified =
\*   CASE WHEN hasChanged THEN CURRENT_TIMESTAMP ELSE calendar_events.last_modified END
UpsertWrite(st, d, hasChanged, t) ==
    LET k == Key(d.user_id, d.event_id)
        lm == IF k \in DOMAIN st /\ ~hasChanged THEN st[k].last_modified ELSE t
        row == [ user_id |-> d.user_id, event_id |-> d.event_id,
                 summary |-> d.summary, description |-> d.description,
                 location |-> d.location, start_time |-> d.start_time,
                 end_time |-> d.end_time, all_day |-> d.all_day,
                 event_type |-> d.event_type,
                 status |-> d.status, attendees |-> d.attendees,
                 last_modified |-> lm ]
    IN  [ kk \in DOMAIN st \cup {k} |-> IF kk = k THEN row ELSE st[kk] ]

\* faulty variant: the row is deleted instead of being marked
markAsCancelled_HardDelete(st, u, id, t) ==
    [ kk \in DOMAIN st \ { Key(u, id) } |-> st[kk] ]

\* UPDATE calendar_events SET status = 'cancelled', last_modified = CURRENT_TIMESTAMP
\*   WHERE user_id = $2 AND event_id = $3
markAsCancelled(st, u, id, t) ==
    [ kk \in DOMAIN st |->
        IF kk = Key(u, id)
        THEN [ st[kk] EXCEPT !.status = CANCELLED, !.last_modified = t ]
        ELSE st[kk] ]

(***************************************************************************)
(* CalendarEventFactory: the normalization of a remote event.              *)
(***************************************************************************)
UpperCase == "ABCDEFGHIJKLMNOPQRSTUVWXYZ"
LowerCase == "abcdefghijklmnopqrstuvwxyz"

\* one character of String.prototype.toLowerCase
LowerOf(ch) ==
    IF \E i \in 1 .. Len(UpperCase) : SubSeq(UpperCase, i, i) = ch
    THEN LET i == CHOOSE j \in 1 .. Len(UpperCase) : SubSeq(UpperCase, j, j) = ch
         IN  SubSeq(LowerCase, i, i)
    ELSE ch

RECURSIVE ToLowerCase(_)
ToLowerCase(str) ==
    IF Len(str) = 0 THEN ""
    ELSE LowerOf(SubSeq(str, 1, 1)) \o ToLowerCase(SubSeq(str, 2, Len(str)))

\* String.prototype.includes
Includes(text, keyword) ==
    \E i \in 1 .. Len(text) :
       /\ i + Len(keyword) - 1 <= Len(text)
       /\ SubSeq(text, i, i + Len(keyword) - 1) = keyword

workKeywords ==
    { "meeting", "call", "interview", "presentation", "conference", "workshop",
      "training", "review", "planning", "standup", "sprint", "demo", "client",
      "business", "work", "office", "team", "project", "deadline", "deliverable" }

personalKeywords ==
    { "birthday", "anniversary", "dinner", "lunch", "coffee", "date", "party",
      "celebration", "family", "friend", "personal", "vacation", "holiday",
      "doctor", "dentist", "appointment", "gym", "workout", "exercise" }

\* categorizeEvent(summary, description): `${summary} ${description || ''}`
\* lower-cased, searched for the work keywords first; the results are the
\* values of enum EventType
categorizeEvent(summary, description) ==
    LET text == ToLowerCase(summary \o " " \o OrElse(description, ""))
    IN  IF \E keyword \in workKeywords : Includes(text, keyword) THEN "work"
        ELSE IF \E keyword \in personalKeywords : Includes(text, keyword) THEN "personal"
        ELSE "unknown"

\* mapGoogleStatus(googleStatus): switch (googleStatus?.toLowerCase())
mapGoogleStatus(googleStatus) ==
    LET lowered == IF googleStatus = Undefined THEN Undefined
                   ELSE ToLowerCase(googleStatus)
    IN  IF lowered \in {CONFIRMED, TENTATIVE, CANCELLED} THEN lowered ELSE CONFIRMED

\* createFromGoogleEvent(userId, googleEvent): the normalized event
createFromGoogleEvent(u, g) ==
    [ user_id |-> u, event_id |-> g.id, summary |-> g.summary,
      description |-> OrElse(g.description, "null"),
      location |-> OrElse(g.location, "null"),
      start_time |-> g.start, end_time |-> g.end, all_day |-> ~g.dateTime,
      event_type |-> categorizeEvent(g.summary, g.description),
      status |-> mapGoogleStatus(g.status), attendees |-> g.attendees ]

(***************************************************************************)
(* CalendarService.checkForChanges: the diff of a fetched list against the *)
(* stored snapshots.                                                       *)
(***************************************************************************)
StoredFor(stored, id) == { r \in Range(stored) : r.event_id = id }

ContentChanged(storedEvent, googleEvent) ==
    \/ storedEvent.summary # googleEvent.summary
    \/ storedEvent.description # OrElse(googleEvent.description, "")
    \/ storedEvent.location # OrElse(googleEvent.location, "")
    \/ storedEvent.start_time # googleEvent.start
    \/ storedEvent.end_time # googleEvent.end
    \/ storedEvent.status # OrElse(googleEvent.status, CONFIRMED)

\* faulty variant: minutesDiff >= 5
ExceedsDebounce_Inclusive(googleUpdated, storedUpdated) ==
    googleUpdated - storedUpdated >= DebounceMinutes

\* minutesDiff > 5
ExceedsDebounce(googleUpdated, storedUpdated) ==
    googleUpdated - storedUpdated > DebounceMinutes

IsModified(storedEvent, googleEvent) ==
    /\ googleEvent.updated # NoTime
    /\ storedEvent.last_modified # NoTime
    /\ googleEvent.updated > storedEvent.last_modified
    /\ ExceedsDebounce(googleEvent.updated, storedEvent.last_modified)
    /\ ContentChanged(storedEvent, googleEvent)

\* the first loop: 'added' and 'modified' records in the order of the fetched list
RECURSIVE AddedModified(_, _)
AddedModified(google, stored) ==
    IF google = << >> THEN << >>
    ELSE LET g == Head(google)
             rest == AddedModified(Tail(google), stored)
             match == StoredFor(stored, g.id)
         IN  IF match = {}
             THEN << [ type |-> "added", id |-> g.id ] >> \o rest
             ELSE IF IsModified(CHOOSE r \in match : TRUE, g)
             THEN << [ type |-> "modified", id |-> g.id ] >> \o rest
             ELSE rest

\* the second loop: 'deleted' records in stored order
RECURSIVE Deleted(_, _)
Deleted(google, stored) ==
    IF stored = << >> THEN << >>
    ELSE LET r == Head(stored)
             rest == Deleted(google, Tail(stored))
         IN  IF \A g \in Range(google) : g.id # r.event_id
             THEN << [ type |-> "deleted", id |-> r.event_id ] >> \o rest
             ELSE rest

\* faulty variant: the 'deleted' records come first
Changes_DeletedFirst(google, stored) ==
    Deleted(google, stored) \o AddedModified(google, stored)

Changes(google, stored) == AddedModified(google, stored) \o Deleted(google, stored)

(***************************************************************************)
(* WhatsAppService: sendMessage and the fan-out over the recipients.       *)
(***************************************************************************)
\* what the transport (axios.post to Twilio) does with one message
PostOutcomes == {"accepted", "throws"}

\* sendMessage: false without credentials or when the post throws, else true
sendMessage(credentials, post) == credentials /\ post = "accepted"

\* results.filter(fulfilled && value === true).length
SuccessCount(values) == Cardinality({ i \in DOMAIN values : values[i] })

\* faulty variant: success only when every recipient succeeded
FanOutResult_AllMustSucceed(values) ==
    SuccessCount(values) = Cardinality(DOMAIN values)

\* Promise.allSettled over the recipients; return successCount > 0
FanOutResult(values) == SuccessCount(values) > 0

(***************************************************************************)
(* AutomationService.checkUserForChanges: one change-detection pass.       *)
(***************************************************************************)
IdlePass ==
    [ pc |-> "idle", user |-> 0, recipients |-> << >>, today |-> 0,
      fetchOk |-> FALSE, google |-> << >>, changes |-> << >>,
      sendOk |-> FALSE, idx |-> 0, hasChanged |-> FALSE ]

FreeSlot(p) ==
    /\ pass[p].pc = "idle"
    /\ \A q \in PassIds : q < p => pass[q].pc # "idle"

\* checkUserForChanges(user) is called: checkForChanges takes today = new Date()
\* and starts the fetch
BeginPass(p, u) ==
    /\ FreeSlot(p)
    /\ pass' = [ pass EXCEPT ![p] =
                   [ IdlePass EXCEPT !.pc = "fetch", !.user = u,
                                     !.recipients = users[u].whatsapp_recipients,
                                     !.today = now ] ]
    /\ UNCHANGED << now, ticks, remote, remoteOps, store, users, configOps, schedVars, fan,
                    callVars, lastCall >>

\* one iteration of checkAllUsersForChanges over findAutomationEnabled()
SweepCheckUser(p, u) ==
    /\ users[u].exists /\ users[u].automation_enabled
    /\ BeginPass(p, u)

\* triggerChangeCheck(userId): findById, then checkUserForChanges(user)
TriggerChangeCheck(p, u) ==
    /\ users[u].exists
    /\ BeginPass(p, u)

\* faulty variant: a failed fetch is taken for an empty list
FetchFails_AsEmptyList(p) ==
    /\ pass[p].pc = "fetch"
    /\ pass' = [ pass EXCEPT ![p].pc = "read", ![p].fetchOk = FALSE,
                              ![p].google = << >> ]
    /\ UNCHANGED << now, ticks, remote, remoteOps, store, users, configOps,
                    schedVars, fan,
                    callVars, lastCall >>

\* fetchEvents caught an error and returned null: checkForChanges returns []
FetchFails(p) ==
    /\ pass[p].pc = "fetch"
    /\ pass' = [ pass EXCEPT ![p].pc = "done", ![p].fetchOk = FALSE,
                              ![p].changes = << >> ]
    /\ UNCHANGED << now, ticks, remote, remoteOps, store, users, configOps, schedVars, fan,
                    callVars, lastCall >>

\* fetchEvents returned response.data.items || []
FetchSucceeds(p) ==
    /\ pass[p].pc = "fetch"
    /\ pass' = [ pass EXCEPT ![p].pc = "read", ![p].fetchOk = TRUE,
                    ![p].google = EventsList(pass[p].user, pass[p].today,
                                             pass[p].today + WindowMinutes) ]
    /\ UNCHANGED << now, ticks, remote, remoteOps, store, users, configOps, schedVars, fan,
                    callVars, lastCall >>

\* the stored rows are read and the change list is computed and returned;
\* checkUserForChanges goes on only if changes.length > 0
ReadStored(p) ==
    /\ pass[p].pc = "read"
    /\ LET stored == findByUserIdAndDateRange(pass[p].user, pass[p].today,
                                              pass[p].today + WindowMinutes)
           changes == Changes(pass[p].google, stored)
       IN  pass' = [ pass EXCEPT ![p].changes = changes,
                       ![p].pc = IF Len(changes) > 0 THEN "send" ELSE "done" ]
    /\ UNCHANGED << now, ticks, remote, remoteOps, store, users, configOps, schedVars, fan,
                    callVars, lastCall >>

\* await sendChangeNotification(recipients, changes); its result is dropped
SendChanges(p) ==
    /\ pass[p].pc = "send"
    /\ \E credentials \in BOOLEAN :
       \E posts \in [ DOMAIN pass[p].recipients -> PostOutcomes ] :
         pass' = [ pass EXCEPT
                     ![p].sendOk = FanOutResult(
                         [ i \in DOMAIN posts |-> sendMessage(credentials, posts[i]) ]),
                     ![p].pc = "process", ![p].idx = 1 ]
    /\ UNCHANGED << now, ticks, remote, remoteOps, store, users, configOps, schedVars, fan,
                    callVars, lastCall >>

GoogleEvent(p, id) == CHOOSE g \in Range(pass[p].google) : g.id = id

AfterChange(p) ==
    IF pass[p].idx >= Len(pass[p].changes) THEN "done" ELSE "process"

\* processChanges, 'added' or 'modified': syncEvents -> upsert reads the existing row
UpsertRead(p) ==
    /\ pass[p].pc = "process"
    /\ pass[p].changes[pass[p].idx].type \in {"added", "modified"}
    /\ LET id == pass[p].changes[pass[p].idx].id
           k == Key(pass[p].user, id)
           d == EventData(pass[p].user, GoogleEvent(p, id))
       IN  pass' = [ pass EXCEPT ![p].pc = "upsert",
                       ![p].hasChanged = IF k \in DOMAIN store
                                         THEN HasChanged(store[k], d) ELSE TRUE ]
    /\ UNCHANGED << now, ticks, remote, remoteOps, store, users, configOps, schedVars, fan,
                    callVars, lastCall >>

\* upsert's INSERT ... ON CONFLICT DO UPDATE
UpsertStore(p) ==
    /\ pass[p].pc = "upsert"
    /\ LET id == pass[p].changes[pass[p].idx].id
           d == EventData(pass[p].user, GoogleEvent(p, id))
       IN  /\ RowAccepted(d)
           /\ store' = UpsertWrite(store, d, pass[p].hasChanged, now)
    /\ pass' = [ pass EXCEPT ![p].pc = AfterChange(p), ![p].idx = @ + 1 ]
    /\ UNCHANGED << now, ticks, remote, remoteOps, users, configOps, schedVars, fan,
                    callVars, lastCall >>

\* the INSERT violates a CHECK constraint of the table: the query rejects,
\* syncEvents rethrows, processChanges catches, logs and returns
UpsertRejected(p) ==
    /\ pass[p].pc = "upsert"
    /\ ~RowAccepted(EventData(pass[p].user,
                              GoogleEvent(p, pass[p].changes[pass[p].idx].id)))
    /\ pass' = [ pass EXCEPT ![p].pc = "done" ]
    /\ UNCHANGED << now, ticks, remote, remoteOps, store, users, configOps, schedVars,
                    fan, callVars, lastCall >>

\* processChanges, 'deleted': markAsCancelled(userId, change.event.event_id)
CancelStored(p) ==
    /\ pass[p].pc = "process"
    /\ pass[p].changes[pass[p].idx].type = "deleted"
    /\ store' = markAsCancelled(store, pass[p].user,
                                pass[p].changes[pass[p].idx].id, now)
    /\ pass' = [ pass EXCEPT ![p].pc = AfterChange(p), ![p].idx = @ + 1 ]
    /\ UNCHANGED << now, ticks, remote, remoteOps, users, configOps, schedVars, fan,
                    callVars, lastCall >>

\* checkUserForChanges returns
PassReturns(p) ==
    /\ pass[p].pc = "done"
    /\ pass' = [ pass EXCEPT ![p] = IdlePass ]
    /\ UNCHANGED << now, ticks, remote, remoteOps, store, users, configOps, schedVars, fan,
                    callVars, lastCall >>

(***************************************************************************)
(* The environment: the clock and the owner editing the remote calendar.   *)
(***************************************************************************)
Tick(d) ==
    /\ ticks < MaxTicks
    /\ now' = now + d
    /\ ticks' = ticks + 1
    /\ UNCHANGED << remote, remoteOps, store, users, configOps, pass, schedVars, fan,
                    callVars, lastCall >>

RemoteAdd(u, id) ==
    /\ remoteOps < MaxRemoteOps
    /\ \A e \in remote[u] : e.id # id
    /\ remote' = [ remote EXCEPT ![u] = @ \cup { RemoteEvent(id, "A", StartOf(id), now) } ]
    /\ remoteOps' = remoteOps + 1
    /\ UNCHANGED << now, ticks, store, users, configOps, pass, schedVars, fan,
                    callVars, lastCall >>

Replace(u, e, f) == [ remote EXCEPT ![u] = (@ \ {e}) \cup {f} ]

\* the owner edits one field; the remote stamps the event's updated time
RemoteEdit(u, e) ==
    /\ remoteOps < MaxRemoteOps
    /\ e \in remote[u]
    /\ \E f \in { [ e EXCEPT !.summary = "B" ],
                   [ e EXCEPT !.start = @ + DebounceMinutes,
                              !.end = @ + DebounceMinutes ] } :
         /\ f # e
         /\ remote' = Replace(u, e, [ f EXCEPT !.updated = now ])
    /\ remoteOps' = remoteOps + 1
    /\ UNCHANGED << now, ticks, store, users, configOps, pass, schedVars, fan,
                    callVars, lastCall >>

\* the remote touches the event's updated time without any content change
RemoteTouch(u, e) ==
    /\ remoteOps < MaxRemoteOps
    /\ e \in remote[u]
    /\ e.updated # now
    /\ remote' = Replace(u, e, [ e EXCEPT !.updated = now ])
    /\ remoteOps' = remoteOps + 1
    /\ UNCHANGED << now, ticks, store, users, configOps, pass, schedVars, fan,
                    callVars, lastCall >>

RemoteDelete(u, e) ==
    /\ remoteOps < MaxRemoteOps
    /\ e \in remote[u]
    /\ remote' = [ remote EXCEPT ![u] = @ \ {e} ]
    /\ remoteOps' = remoteOps + 1
    /\ UNCHANGED << now, ticks, store, users, configOps, pass, schedVars, fan,
                    callVars, lastCall >>

\* the owner restores a deleted event, which the snapshot table holds as
\* CANCELLED: the remote calendar has an event of the same id again
RemoteRestore(u, id) ==
    /\ remoteOps <= MaxRemoteOps
    /\ \A e \in remote[u] : e.id # id
    /\ Key(u, id) \in DOMAIN store /\ store[Key(u, id)].status = CANCELLED
    /\ remote' = [ remote EXCEPT ![u] = @ \cup { RemoteEvent(id, "A", StartOf(id), now) } ]
    /\ remoteOps' = remoteOps + 1
    /\ UNCHANGED << now, ticks, store, users, configOps, pass, schedVars, fan,
                    callVars, lastCall >>

\* a pass of the sweep begun while no other pass is in flight
SweepCheckAlone(u) ==
    /\ \A q \in PassIds : pass[q].pc = "idle"
    /\ \E p \in PassIds : SweepCheckUser(p, u)

(***************************************************************************)
(* AutomationService: the per-user cron jobs and the global interval.      *)
(***************************************************************************)
IdleStart == [ pc |-> "idle", user |-> 0 ]

\* a sendDailySummary call that is not in flight
IdleSummary ==
    [ pc |-> "idle", user |-> 0, recipients |-> << >>, today |-> 0,
      fetchOk |-> FALSE, kind |-> "none", sent |-> FALSE, sendOk |-> FALSE ]

\* faulty variant: the job is dropped from the map without job.stop()
StopJob_Forgotten(tm, jb, u) == tm

\* stopUserAutomation's effect on the timers: job.stop() of the user's job
StopJob(tm, jb, u) ==
    IF u \in DOMAIN jb THEN [ tm EXCEPT ![jb[u]].running = FALSE ] ELSE tm

\* faulty variant: jobs.clear() instead of jobs.delete(userId)
DeleteJob_ClearsMap(jb, u) == IF u \in DOMAIN jb THEN << >> ELSE jb

\* stopUserAutomation's effect on the map: jobs.delete(userId)
DeleteJob(jb, u) == IF u \in DOMAIN jb THEN MapDelete(jb, u) ELSE jb

\* startUserAutomation(userId) is called and awaits UserModel.findById
StartUserCall(s, u) ==
    /\ starts[s].pc = "idle"
    /\ \A q \in StartIds : q < s => starts[q].pc # "idle"
    /\ starts' = [ starts EXCEPT ![s] = [ pc |-> "findById", user |-> u ] ]
    /\ UNCHANGED << detectVars, users, configOps, jobs, timers,
                    changeCheckInterval, intervals, summ, fan,
                    callVars, lastCall >>

\* faulty variant: the existing job is stopped before the config is looked at
StartUserSkips_StopsJob(s) ==
    /\ starts[s].pc = "findById"
    /\ ~users[starts[s].user].exists \/ ~users[starts[s].user].automation_enabled
    /\ timers' = StopJob(timers, jobs, starts[s].user)
    /\ jobs' = DeleteJob(jobs, starts[s].user)
    /\ starts' = [ starts EXCEPT ![s] = IdleStart ]
    /\ lastCall' = [ op |-> "startUserAutomation:skipped", user |-> starts[s].user ]
    /\ UNCHANGED << detectVars, users, configOps,
                    changeCheckInterval, intervals, summ, fan, callVars >>

\* findById resolved with no user or a disabled one: return
StartUserSkips(s) ==
    /\ starts[s].pc = "findById"
    /\ ~users[starts[s].user].exists \/ ~users[starts[s].user].automation_enabled
    /\ starts' = [ starts EXCEPT ![s] = IdleStart ]
    /\ lastCall' = [ op |-> "startUserAutomation:skipped", user |-> starts[s].user ]
    /\ UNCHANGED << detectVars, users, configOps, jobs, timers,
                    changeCheckInterval, intervals, summ, fan, callVars >>

\* findById resolved with an enabled user: stopUserAutomation(userId), then
\* cron.schedule(...) and jobs.set(userId, job)
StartUserInstalls(s) ==
    /\ starts[s].pc = "findById"
    /\ users[starts[s].user].exists /\ users[starts[s].user].automation_enabled
    /\ Len(timers) < MaxTimers
    /\ LET u == starts[s].user
           stopped == StopJob(timers, jobs, u)
       IN  /\ timers' = Append(stopped, [ user |-> u, running |-> TRUE ])
           /\ jobs' = MapSet(DeleteJob(jobs, u), u, Len(timers) + 1)
    /\ starts' = [ starts EXCEPT ![s] = IdleStart ]
    /\ lastCall' = [ op |-> "startUserAutomation:installed", user |-> starts[s].user ]
    /\ UNCHANGED << detectVars, users, configOps, changeCheckInterval,
                    intervals, summ, fan, callVars >>

\* the database answers the findById of a start: the row it read travels back
\* to the service while other handlers run
StartUserReads(s) ==
    /\ starts[s].pc = "findById"
    /\ starts' = [ starts EXCEPT ![s] = [ pc |-> "resolved", user |-> starts[s].user,
                                          row |-> users[starts[s].user] ] ]
    /\ UNCHANGED << detectVars, users, configOps, jobs, timers,
                    changeCheckInterval, intervals, summ, fan,
                    callVars, lastCall >>

\* the awaited findById resolves with the row that was read, and the start goes
\* on with it: return for no user or a disabled one, else stopUserAutomation,
\* cron.schedule at the row's daily_summary_time and jobs.set
StartUserResumes(s) ==
    /\ starts[s].pc = "resolved"
    /\ LET u == starts[s].user
           row == starts[s].row
       IN  IF ~row.exists \/ ~row.automation_enabled
           THEN /\ lastCall' = [ op |-> "startUserAutomation:skipped", user |-> u ]
                /\ UNCHANGED << jobs, timers >>
           ELSE /\ Len(timers) < MaxTimers
                /\ timers' = Append(StopJob(timers, jobs, u),
                                    [ user |-> u, running |-> TRUE,
                                      time |-> row.daily_summary_time ])
                /\ jobs' = MapSet(DeleteJob(jobs, u), u, Len(timers) + 1)
                /\ lastCall' = [ op |-> "startUserAutomation:installed", user |-> u ]
    /\ starts' = [ starts EXCEPT ![s] = IdleStart ]
    /\ UNCHANGED << detectVars, users, configOps, changeCheckInterval,
                    intervals, summ, fan, callVars >>

\* stopUserAutomation(userId)
StopUserAutomation(u) ==
    /\ timers' = StopJob(timers, jobs, u)
    /\ jobs' = DeleteJob(jobs, u)
    /\ UNCHANGED << detectVars, users, configOps, changeCheckInterval,
                    intervals, starts, summ, fan,
                    callVars, lastCall >>

\* startChangeDetection(): this.changeCheckInterval = setInterval(...)
StartChangeDetection ==
    /\ Len(intervals) < MaxIntervals
    /\ intervals' = Append(intervals, TRUE)
    /\ changeCheckInterval' = Len(intervals) + 1
    /\ UNCHANGED << detectVars, users, configOps, jobs, timers, starts, summ, fan,
                    callVars, lastCall >>

\* clearInterval(this.changeCheckInterval); this.changeCheckInterval = null
ClearChangeCheck(iv, handle) ==
    IF handle # 0 THEN [ iv EXCEPT ![handle] = FALSE ] ELSE iv

\* stopChangeDetection()
StopChangeDetection ==
    /\ intervals' = ClearChangeCheck(intervals, changeCheckInterval)
    /\ changeCheckInterval' = 0
    /\ UNCHANGED << detectVars, users, configOps, jobs, timers, starts, summ, fan,
                    callVars, lastCall >>

\* faulty variant: the stop also drops the daily-summary cycles and the
\* change-detection passes that are in flight
StopAllAutomations_Aborts ==
    /\ timers' = [ t \in DOMAIN timers |->
                     IF \E u \in DOMAIN jobs : jobs[u] = t
                     THEN [ timers[t] EXCEPT !.running = FALSE ] ELSE timers[t] ]
    /\ jobs' = << >>
    /\ intervals' = ClearChangeCheck(intervals, changeCheckInterval)
    /\ changeCheckInterval' = 0
    /\ lastCall' = [ op |-> "stopAllAutomations", user |-> 0 ]
    /\ summ' = [ s \in DOMAIN summ |-> IdleSummary ]
    /\ pass' = [ p \in DOMAIN pass |-> IdlePass ]
    /\ UNCHANGED << now, ticks, remote, remoteOps, store, users, configOps, starts, fan,
                    callVars >>

\* stopAllAutomations(): stop every job of the map, clear it, stopChangeDetection()
StopAllAutomations ==
    /\ timers' = [ t \in DOMAIN timers |->
                     IF \E u \in DOMAIN jobs : jobs[u] = t
                     THEN [ timers[t] EXCEPT !.running = FALSE ] ELSE timers[t] ]
    /\ jobs' = << >>
    /\ intervals' = ClearChangeCheck(intervals, changeCheckInterval)
    /\ changeCheckInterval' = 0
    /\ lastCall' = [ op |-> "stopAllAutomations", user |-> 0 ]
    /\ UNCHANGED << detectVars, users, configOps, starts, summ, fan, callVars >>

\* the settings of a user are changed (PUT /settings saves automation_enabled)
ConfigSetEnabled(u, b) ==
    /\ configOps < MaxConfigOps
    /\ users[u].exists /\ users[u].automation_enabled # b
    /\ users' = [ users EXCEPT ![u].automation_enabled = b ]
    /\ configOps' = configOps + 1
    /\ UNCHANGED << detectVars, schedVars, fan,
                    callVars, lastCall >>

\* the times of the day a user can choose for the daily summary
SummaryTimes == { "08:00", "09:00" }

\* the settings of a user are changed (PUT /settings saves daily_summary_time)
ConfigSetTime(u, t) ==
    /\ configOps < MaxConfigOps
    /\ users[u].exists /\ users[u].daily_summary_time # t
    /\ users' = [ users EXCEPT ![u].daily_summary_time = t ]
    /\ configOps' = configOps + 1
    /\ UNCHANGED << detectVars, schedVars, fan,
                    callVars, lastCall >>

\* the user's row is deleted (UserModel.deleteById)
ConfigDelete(u) ==
    /\ configOps < MaxConfigOps
    /\ users[u].exists
    /\ users' = [ users EXCEPT ![u].exists = FALSE ]
    /\ configOps' = configOps + 1
    /\ UNCHANGED << detectVars, schedVars, fan,
                    callVars, lastCall >>

(***************************************************************************)
(* AutomationService.sendDailySummary with CalendarService.getTodaySummary.*)
(***************************************************************************)
\* the text getTodaySummary builds: which of its return statements is taken.
\* events is the fetched list; fetched is FALSE when fetchEvents returned null
SummaryKind(fetched, events) ==
    IF ~fetched \/ Len(events) = 0 THEN "NoEvents"
    ELSE IF \A i \in DOMAIN events : ~events[i].dateTime THEN "NoTimedEvents"
    ELSE "Schedule"

SummaryBegin(s, u) ==
    /\ summ[s].pc = "idle"
    /\ \A q \in SummaryIds : q < s => summ[q].pc # "idle"
    /\ summ' = [ summ EXCEPT ![s] = [ IdleSummary EXCEPT !.pc = "config", !.user = u ] ]
    /\ UNCHANGED << detectVars, users, configOps, jobs, timers,
                    changeCheckInterval, intervals, starts, fan,
                    callVars, lastCall >>

\* the cron task of a user fires: await this.sendDailySummary(userId)
TimerFires(t, s) ==
    /\ t \in DOMAIN timers /\ timers[t].running
    /\ SummaryBegin(s, timers[t].user)

\* triggerDailySummary(userId): await this.sendDailySummary(userId)
TriggerDailySummary(s, u) == SummaryBegin(s, u)

\* faulty variant: the firing trusts the configuration captured at installation
SummaryConfig_TrustsCapture(s) ==
    /\ summ[s].pc = "config"
    /\ summ' = [ summ EXCEPT
                   ![s].pc = "lookup",
                   ![s].recipients = users[summ[s].user].whatsapp_recipients ]
    /\ UNCHANGED << detectVars, users, configOps, jobs, timers,
                    changeCheckInterval, intervals, starts, fan,
                    callVars, lastCall >>

\* sendDailySummary: findById resolved; return when absent or disabled
SummaryConfig(s) ==
    /\ summ[s].pc = "config"
    /\ LET user == users[summ[s].user]
       IN  summ' = [ summ EXCEPT
                       ![s].pc = IF user.exists /\ user.automation_enabled
                                 THEN "lookup" ELSE "done",
                       ![s].recipients = IF user.exists /\ user.automation_enabled
                                         THEN user.whatsapp_recipients ELSE << >> ]
    /\ UNCHANGED << detectVars, users, configOps, jobs, timers,
                    changeCheckInterval, intervals, starts, fan,
                    callVars, lastCall >>

\* getTodaySummary: findById resolved; 'User not found' is caught and answered
\* with the failure text, otherwise today = new Date() and the fetch starts
SummaryLookup(s) ==
    /\ summ[s].pc = "lookup"
    /\ summ' = IF users[summ[s].user].exists
               THEN [ summ EXCEPT ![s].pc = "fetch", ![s].today = now ]
               ELSE [ summ EXCEPT ![s].pc = "send", ![s].kind = "Failed" ]
    /\ UNCHANGED << detectVars, users, configOps, jobs, timers,
                    changeCheckInterval, intervals, starts, fan,
                    callVars, lastCall >>

\* fetchEvents returned null
SummaryFetchFails(s) ==
    /\ summ[s].pc = "fetch"
    /\ summ' = [ summ EXCEPT ![s].pc = "send", ![s].fetchOk = FALSE,
                              ![s].kind = SummaryKind(FALSE, << >>) ]
    /\ UNCHANGED << detectVars, users, configOps, jobs, timers,
                    changeCheckInterval, intervals, starts, fan,
                    callVars, lastCall >>

\* fetchEvents returned the list
SummaryFetchSucceeds(s) ==
    /\ summ[s].pc = "fetch"
    /\ summ' = [ summ EXCEPT ![s].pc = "send", ![s].fetchOk = TRUE,
                    ![s].kind = SummaryKind(TRUE,
                        EventsList(summ[s].user, summ[s].today,
                                   summ[s].today + WindowMinutes)) ]
    /\ UNCHANGED << detectVars, users, configOps, jobs, timers,
                    changeCheckInterval, intervals, starts, fan,
                    callVars, lastCall >>

\* whatsappService.sendDailySummary(recipients, summary.summary)
SummarySend(s) ==
    /\ summ[s].pc = "send"
    /\ \E credentials \in BOOLEAN :
       \E posts \in [ DOMAIN summ[s].recipients -> PostOutcomes ] :
         summ' = [ summ EXCEPT
                     ![s].sendOk = FanOutResult(
                         [ i \in DOMAIN posts |-> sendMessage(credentials, posts[i]) ]),
                     ![s].sent = TRUE, ![s].pc = "done" ]
    /\ UNCHANGED << detectVars, users, configOps, jobs, timers,
                    changeCheckInterval, intervals, starts, fan,
                    callVars, lastCall >>

SummaryReturns(s) ==
    /\ summ[s].pc = "done"
    /\ summ' = [ summ EXCEPT ![s] = IdleSummary ]
    /\ UNCHANGED << detectVars, users, configOps, jobs, timers,
                    changeCheckInterval, intervals, starts, fan,
                    callVars, lastCall >>

(***************************************************************************)
(* WhatsAppService.sendDailySummary / sendChangeNotification, send by send.*)
(***************************************************************************)
IdleFan ==
    [ pc |-> "idle", kind |-> "none", credentials |-> FALSE,
      attempts |-> << >>, settled |-> << >>, result |-> FALSE ]

\* the call maps sendMessage over recipientArray: one send is started for each
FanOutCall(kind, n, credentials) ==
    /\ fan.pc = "idle"
    /\ fan' = [ pc |-> "allSettled", kind |-> kind, credentials |-> credentials,
                attempts |-> [ i \in 1 .. n |-> 1 ],
                settled |-> [ i \in 1 .. n |-> "pending" ],
                result |-> FALSE ]
    /\ UNCHANGED << detectVars, users, configOps, schedVars,
                    callVars, lastCall >>

\* the send to recipient i settles
SendSettles(i, post) ==
    /\ fan.pc = "allSettled"
    /\ i \in DOMAIN fan.settled /\ fan.settled[i] = "pending"
    /\ fan' = [ fan EXCEPT !.settled[i] =
                   IF sendMessage(fan.credentials, post) THEN "true" ELSE "false" ]
    /\ UNCHANGED << detectVars, users, configOps, schedVars,
                    callVars, lastCall >>

\* Promise.allSettled resolves; the call returns successCount > 0
FanOutReturns ==
    /\ fan.pc = "allSettled"
    /\ \A i \in DOMAIN fan.settled : fan.settled[i] # "pending"
    /\ fan' = [ fan EXCEPT !.pc = "returned",
                   !.result = FanOutResult([ i \in DOMAIN fan.settled |->
                                               fan.settled[i] = "true" ]) ]
    /\ UNCHANGED << detectVars, users, configOps, schedVars,
                    callVars, lastCall >>

FanOutReset ==
    /\ fan.pc = "returned"
    /\ fan' = IdleFan
    /\ UNCHANGED << detectVars, users, configOps, schedVars,
                    callVars, lastCall >>

(***************************************************************************)
(* The calls the further specifications follow, when none is in flight.    *)
(***************************************************************************)
IdleSweep ==
    [ pc |-> "idle", queried |-> << >>, queue |-> << >>, cur |-> 0,
      processed |-> << >>, failed |-> {}, notified |-> {} ]

NoResult == [ success |-> FALSE, message |-> Undefined, error |-> Undefined ]

IdleTrigger ==
    [ pc |-> "idle", op |-> "none", user |-> 0, slot |-> 0, result |-> NoResult ]

IdleUpsert == [ pc |-> "idle", d |-> << >>, hasChanged |-> FALSE ]

NoSummary == [ today |-> 0, freeBlocks |-> << >>, text |-> << >> ]

IdleDay ==
    [ pc |-> "idle", today |-> 0, events |-> << >>, kind |-> "none",
      timedEvents |-> << >>, freeBlocks |-> << >>, rendered |-> << >>,
      text |-> << >>, again |-> NoSummary ]

NoCall == [ op |-> "none", user |-> 0 ]

\* the object getAutomationStatus returns (dailySummaryTime and timezone, copied
\* from the user's row, are left out)
NoReport ==
    [ error |-> Undefined, automationEnabled |-> FALSE, jobActive |-> FALSE,
      changeDetectionActive |-> FALSE ]

IdleStatus == [ pc |-> "idle", user |-> 0, report |-> NoReport ]

IdleBoot ==
    [ pc |-> "idle", queried |-> << >>, queue |-> << >>, cur |-> 0,
      attempted |-> << >> ]

(***************************************************************************)
(* Errors of the snapshot store inside a pass.                             *)
(***************************************************************************)
\* findByUserIdAndDateRange rejects: checkForChanges catches and returns []
ReadStoredThrows(p) ==
    /\ pass[p].pc = "read"
    /\ pass' = [ pass EXCEPT ![p].pc = "done", ![p].changes = << >> ]
    /\ UNCHANGED << now, ticks, remote, remoteOps, store, users, configOps,
                    schedVars, fan, callVars, lastCall >>

\* upsert or markAsCancelled rejects: syncEvents rethrows, processChanges catches,
\* logs and returns; the changes not yet processed are left out
StoreWriteThrows(p) ==
    /\ pass[p].pc \in {"process", "upsert"}
    /\ pass' = [ pass EXCEPT ![p].pc = "done" ]
    /\ UNCHANGED << now, ticks, remote, remoteOps, store, users, configOps,
                    schedVars, fan, callVars, lastCall >>

\* a finished pass met a collaborator failure: the fetch failed, or no recipient
\* accepted the notification, or a store write threw before the last change
\* (a failed store read leaves no trace in the pass)
PassFailed(p) ==
    \/ ~pass[p].fetchOk
    \/ /\ pass[p].changes # << >>
       /\ ~pass[p].sendOk \/ pass[p].idx <= Len(pass[p].changes)

\* a finished pass found changes, had its notification accepted for some
\* recipient and wrote every change back
PassNotified(p) ==
    /\ pass[p].fetchOk /\ pass[p].changes # << >>
    /\ pass[p].sendOk /\ pass[p].idx > Len(pass[p].changes)

(***************************************************************************)
(* AutomationService.checkAllUsersForChanges: the sweep over the users.    *)
(***************************************************************************)
\* the rows of SELECT * FROM users WHERE automation_enabled = true
EnabledUsers == { u \in Users : users[u].exists /\ users[u].automation_enabled }

\* the sequences that list every element of the finite set S once
Orderings(S) ==
    { q \in [ 1 .. Cardinality(S) -> S ] : \A i, j \in DOMAIN q : q[i] = q[j] => i = j }

UserRow(u) == [ id |-> u, whatsapp_recipients |-> users[u].whatsapp_recipients ]

Ids(rows) == [ i \in DOMAIN rows |-> rows[i].id ]

\* faulty variant: a failure while processing one user ends the loop
SweepRest_AbortsOnFailure(queue, failed) == IF failed THEN << >> ELSE Tail(queue)

\* for (const user of users) { try { await checkUserForChanges(user) } catch {} }:
\* the users still to process once the pass of the first has settled
SweepRest(queue, failed) == Tail(queue)

\* the interval callback calls checkAllUsersForChanges(): findAutomationEnabled starts
SweepStart ==
    /\ sweep.pc \in {"idle", "returned"}
    /\ sweep' = [ IdleSweep EXCEPT !.pc = "query" ]
    /\ UNCHANGED << detectVars, users, configOps, schedVars, fan, trig, upserts, day,
                    lastCall, moreVars >>

\* findAutomationEnabled resolves with the enabled users, in the order the
\* database returns them (the query has no ORDER BY)
SweepQuery(q) ==
    /\ sweep.pc = "query"
    /\ q \in Orderings(EnabledUsers)
    /\ sweep' = [ sweep EXCEPT !.pc = "loop",
                               !.queried = [ i \in DOMAIN q |-> UserRow(q[i]) ],
                               !.queue = [ i \in DOMAIN q |-> UserRow(q[i]) ] ]
    /\ UNCHANGED << detectVars, users, configOps, schedVars, fan, trig, upserts, day,
                    lastCall, moreVars >>

\* findAutomationEnabled rejects: the outer catch logs, no user is processed
SweepQueryFails ==
    /\ sweep.pc = "query"
    /\ sweep' = [ sweep EXCEPT !.pc = "returned" ]
    /\ UNCHANGED << detectVars, users, configOps, schedVars, fan, trig, upserts, day,
                    lastCall, moreVars >>

\* the loop calls checkUserForChanges(user) for the next user of the list
SweepCheck(p) ==
    /\ sweep.pc = "loop" /\ sweep.cur = 0 /\ sweep.queue # << >>
    /\ FreeSlot(p)
    /\ pass' = [ pass EXCEPT ![p] =
                   [ IdlePass EXCEPT !.pc = "fetch", !.user = Head(sweep.queue).id,
                        !.recipients = Head(sweep.queue).whatsapp_recipients,
                        !.today = now ] ]
    /\ sweep' = [ sweep EXCEPT !.cur = p ]
    /\ UNCHANGED << now, ticks, remote, remoteOps, store, users, configOps,
                    schedVars, fan, trig, upserts, day, lastCall, moreVars >>

\* the awaited checkUserForChanges settles: the loop goes on
SweepAwait ==
    /\ sweep.pc = "loop" /\ sweep.cur # 0
    /\ pass[sweep.cur].pc = "done"
    /\ LET p == sweep.cur
           u == pass[p].user
       IN  /\ sweep' = [ sweep EXCEPT
                           !.cur = 0,
                           !.processed = Append(@, u),
                           !.failed = IF PassFailed(p) THEN @ \cup {u} ELSE @,
                           !.notified = IF PassNotified(p) THEN @ \cup {u} ELSE @,
                           !.queue = SweepRest(@, PassFailed(p)) ]
           /\ pass' = [ pass EXCEPT ![p] = IdlePass ]
    /\ UNCHANGED << now, ticks, remote, remoteOps, store, users, configOps,
                    schedVars, fan, trig, upserts, day, lastCall, moreVars >>

\* the callback of a live interval runs: await this.checkAllUsersForChanges()
IntervalFires(i) ==
    /\ i \in DOMAIN intervals /\ intervals[i]
    /\ SweepStart

\* the list is exhausted: checkAllUsersForChanges returns
SweepReturns ==
    /\ sweep.pc = "loop" /\ sweep.cur = 0 /\ sweep.queue = << >>
    /\ sweep' = [ sweep EXCEPT !.pc = "returned" ]
    /\ UNCHANGED << detectVars, users, configOps, schedVars, fan, trig, upserts, day,
                    lastCall, moreVars >>

(***************************************************************************)
(* CalendarEventModel.upsert, call by call: syncEvents is called by the     *)
(* passes and by the sync routes, so calls for one key can overlap.         *)
(***************************************************************************)
\* the remote events whose data the callers upsert: "e1" under two titles and
\* with its two attendees in either order, and "e2"
StoreEvents ==
    { [ RemoteEvent("e1", "A", StartOf("e1"), 0) EXCEPT !.attendees = << "a", "b" >> ],
      [ RemoteEvent("e1", "A", StartOf("e1"), 0) EXCEPT !.attendees = << "b", "a" >> ],
      [ RemoteEvent("e1", "B", StartOf("e1"), 0) EXCEPT !.attendees = << "a", "b" >> ],
      RemoteEvent("e2", "A", StartOf("e2"), 0) }

UpsertInputs == { EventData(u, g) : u \in DetectUsers, g \in StoreEvents }

\* upsert(eventData) is called: findByUserIdAndEventId resolves and hasChanged
\* is computed from the row it returned; the INSERT is not yet sent
UpsertCall(c, d) ==
    /\ upserts[c].pc \in {"idle", "returned"}
    /\ LET k == Key(d.user_id, d.event_id)
       IN  upserts' = [ upserts EXCEPT ![c] =
                          [ pc |-> "write", d |-> << d >>,
                            hasChanged |-> IF k \in DOMAIN store
                                           THEN HasChanged(store[k], d) ELSE TRUE ] ]
    /\ UNCHANGED << detectVars, users, configOps, schedVars, fan, sweep, trig, day,
                    lastCall, moreVars >>

\* the INSERT ... ON CONFLICT DO UPDATE of the call is executed; upsert returns
UpsertCommit(c) ==
    /\ upserts[c].pc = "write"
    /\ RowAccepted(upserts[c].d[1])
    /\ store' = UpsertWrite(store, upserts[c].d[1], upserts[c].hasChanged, now)
    /\ upserts' = [ upserts EXCEPT ![c].pc = "returned" ]
    /\ UNCHANGED << now, ticks, remote, remoteOps, users, configOps, pass, schedVars,
                    fan, sweep, trig, day, lastCall, moreVars >>

(***************************************************************************)
(* AutomationService.triggerDailySummary / triggerChangeCheck with their    *)
(* results, and the catch block of sendDailySummary.                        *)
(***************************************************************************)
\* UserModel.findById of sendDailySummary rejects: the catch block is entered
SummaryConfigThrows(s) ==
    /\ summ[s].pc = "config"
    /\ summ' = [ summ EXCEPT ![s].pc = "catch" ]
    /\ UNCHANGED << detectVars, users, configOps, jobs, timers, changeCheckInterval,
                    intervals, starts, fan, callVars, lastCall >>

\* the catch block: findById again and sendErrorNotification to the first
\* recipient, inside a try of its own; whatever they do, sendDailySummary returns
SummaryNotifyError(s) ==
    /\ summ[s].pc = "catch"
    /\ summ' = [ summ EXCEPT ![s].pc = "done", ![s].kind = "Error" ]
    /\ UNCHANGED << detectVars, users, configOps, jobs, timers, changeCheckInterval,
                    intervals, starts, fan, callVars, lastCall >>

\* return { success: true, message }
TriggerSucceeded(t, message) ==
    [ t EXCEPT !.pc = "returned",
               !.result = [ success |-> TRUE, message |-> message, error |-> Undefined ] ]

\* faulty variant: the error is thrown on to the caller
TriggerCaught_Rethrows(t, errorMessage) == [ t EXCEPT !.pc = "rejected" ]

\* catch (error) { return { success: false, error: errorMessage } }
TriggerCaught(t, errorMessage) ==
    [ t EXCEPT !.pc = "returned",
               !.result = [ success |-> FALSE, message |-> Undefined,
                            error |-> errorMessage ] ]

\* triggerChangeCheck(userId) is called and awaits UserModel.findById
TriggerChangeCheckCall(u) ==
    /\ trig.pc \in {"idle", "returned"}
    /\ trig' = [ IdleTrigger EXCEPT !.pc = "findById", !.op = "changeCheck", !.user = u ]
    /\ UNCHANGED << detectVars, users, configOps, schedVars, fan, sweep, upserts, day,
                    lastCall, moreVars >>

\* findById resolved with the user: await this.checkUserForChanges(user)
TriggerChangeCheckFinds(p) ==
    /\ trig.pc = "findById" /\ users[trig.user].exists
    /\ FreeSlot(p)
    /\ pass' = [ pass EXCEPT ![p] =
                   [ IdlePass EXCEPT !.pc = "fetch", !.user = trig.user,
                        !.recipients = users[trig.user].whatsapp_recipients,
                        !.today = now ] ]
    /\ trig' = [ trig EXCEPT !.pc = "await", !.slot = p ]
    /\ UNCHANGED << now, ticks, remote, remoteOps, store, users, configOps,
                    schedVars, fan, sweep, upserts, day, lastCall, moreVars >>

\* findById resolved with null: throw new Error('User not found'), caught
TriggerChangeCheckNoUser ==
    /\ trig.pc = "findById" /\ ~users[trig.user].exists
    /\ trig' = TriggerCaught(trig, "User not found")
    /\ UNCHANGED << detectVars, users, configOps, schedVars, fan, sweep, upserts, day,
                    lastCall, moreVars >>

\* findById rejected (the user store is unreachable): caught
TriggerFindByIdThrows ==
    /\ trig.pc = "findById"
    /\ trig' = TriggerCaught(trig, "user store error")
    /\ UNCHANGED << detectVars, users, configOps, schedVars, fan, sweep, upserts, day,
                    lastCall, moreVars >>

\* the awaited checkUserForChanges settled
TriggerChangeCheckReturns ==
    /\ trig.pc = "await" /\ trig.op = "changeCheck"
    /\ pass[trig.slot].pc = "done"
    /\ pass' = [ pass EXCEPT ![trig.slot] = IdlePass ]
    /\ trig' = TriggerSucceeded(trig, "Change check completed")
    /\ UNCHANGED << now, ticks, remote, remoteOps, store, users, configOps,
                    schedVars, fan, sweep, upserts, day, lastCall, moreVars >>

\* triggerDailySummary(userId) is called: await this.sendDailySummary(userId)
TriggerDailySummaryCall(s, u) ==
    /\ trig.pc \in {"idle", "returned"}
    /\ summ[s].pc = "idle"
    /\ summ' = [ summ EXCEPT ![s] = [ IdleSummary EXCEPT !.pc = "config", !.user = u ] ]
    /\ trig' = [ IdleTrigger EXCEPT !.pc = "await", !.op = "dailySummary",
                                    !.user = u, !.slot = s ]
    /\ UNCHANGED << detectVars, users, configOps, jobs, timers, changeCheckInterval,
                    intervals, starts, fan, sweep, upserts, day, lastCall, moreVars >>

\* the awaited sendDailySummary settled
TriggerDailySummaryReturns ==
    /\ trig.pc = "await" /\ trig.op = "dailySummary"
    /\ summ[trig.slot].pc = "done"
    /\ summ' = [ summ EXCEPT ![trig.slot] = IdleSummary ]
    /\ trig' = TriggerSucceeded(trig, "Daily summary sent successfully")
    /\ UNCHANGED << detectVars, users, configOps, jobs, timers, changeCheckInterval,
                    intervals, starts, fan, sweep, upserts, day, lastCall, moreVars >>

(***************************************************************************)
(* AutomationService.startAllAutomations, called once when the server has  *)
(* started to listen.                                                      *)
(***************************************************************************)
\* findById rejects, or cron.schedule throws on the user's daily_summary_time:
\* startUserAutomation catches the error, logs it and returns
StartUserThrows(s) ==
    /\ starts[s].pc = "findById"
    /\ starts' = [ starts EXCEPT ![s] = IdleStart ]
    /\ lastCall' = [ op |-> "startUserAutomation:failed", user |-> starts[s].user ]
    /\ UNCHANGED << detectVars, users, configOps, jobs, timers,
                    changeCheckInterval, intervals, summ, fan, callVars >>

\* faulty variant: a start that failed ends the loop
BootRest_StopsOnFailure(queue, op) ==
    IF op = "startUserAutomation:failed" THEN << >> ELSE Tail(queue)

\* for (const user of users) { await this.startUserAutomation(user.id) }: the
\* users still to start once the start of the first has returned
BootRest(queue, op) == Tail(queue)

\* startAllAutomations() is called and awaits findAutomationEnabled
StartAllCall ==
    /\ boot.pc = "idle"
    /\ boot' = [ boot EXCEPT !.pc = "query" ]
    /\ UNCHANGED << detectVars, users, configOps, schedVars, fan, sweep, trig, upserts,
                    day, lastCall, status >>

\* findAutomationEnabled resolves with the enabled users, in the order the
\* database returns them
StartAllQuery(q) ==
    /\ boot.pc = "query"
    /\ q \in Orderings(EnabledUsers)
    /\ boot' = [ boot EXCEPT !.pc = "loop", !.queried = q, !.queue = q ]
    /\ UNCHANGED << detectVars, users, configOps, schedVars, fan, sweep, trig, upserts,
                    day, lastCall, status >>

\* findAutomationEnabled rejects: the catch logs, nothing is started
StartAllQueryFails ==
    /\ boot.pc = "query"
    /\ boot' = [ boot EXCEPT !.pc = "failed" ]
    /\ UNCHANGED << detectVars, users, configOps, schedVars, fan, sweep, trig, upserts,
                    day, lastCall, status >>

\* the loop calls startUserAutomation(user.id) for the next user of the list
StartAllStart(s) ==
    /\ boot.pc = "loop" /\ boot.cur = 0 /\ boot.queue # << >>
    /\ starts[s].pc = "idle"
    /\ \A q \in StartIds : q < s => starts[q].pc # "idle"
    /\ starts' = [ starts EXCEPT ![s] = [ pc |-> "findById", user |-> Head(boot.queue) ] ]
    /\ boot' = [ boot EXCEPT !.cur = s ]
    /\ UNCHANGED << detectVars, users, configOps, jobs, timers, changeCheckInterval,
                    intervals, summ, fan, sweep, trig, upserts, day, lastCall, status >>

\* the awaited startUserAutomation returned: the loop goes on
StartAllAwait ==
    /\ boot.pc = "loop" /\ boot.cur # 0
    /\ starts[boot.cur].pc = "idle"
    /\ boot' = [ boot EXCEPT !.cur = 0,
                             !.attempted = Append(@, lastCall),
                             !.queue = BootRest(@, lastCall.op) ]
    /\ UNCHANGED << detectVars, users, configOps, schedVars, fan, sweep, trig, upserts,
                    day, lastCall, status >>

\* the list is exhausted: this.startChangeDetection(), and the call returns
StartAllDetect ==
    /\ boot.pc = "loop" /\ boot.cur = 0 /\ boot.queue = << >>
    /\ Len(intervals) < MaxIntervals
    /\ intervals' = Append(intervals, TRUE)
    /\ changeCheckInterval' = Len(intervals) + 1
    /\ boot' = [ boot EXCEPT !.pc = "returned" ]
    /\ UNCHANGED << detectVars, users, configOps, jobs, timers, starts, summ, fan,
                    sweep, trig, upserts, day, lastCall, status >>

(***************************************************************************)
(* AutomationService.getAutomationStatus.                                  *)
(***************************************************************************)
\* faulty variant: jobActive is taken from the user's configuration
StatusReport_FromConfig(user, u, jb, handle) ==
    IF ~user.exists THEN [ NoReport EXCEPT !.error = "User not found" ]
    ELSE [ error |-> Undefined, automationEnabled |-> user.automation_enabled,
           jobActive |-> user.automation_enabled,
           changeDetectionActive |-> handle # 0 ]

\* { error: 'User not found' } without a user, else { automationEnabled,
\* jobActive: this.jobs.has(userId),
\* changeDetectionActive: this.changeCheckInterval !== null }
StatusReport(user, u, jb, handle) ==
    IF ~user.exists THEN [ NoReport EXCEPT !.error = "User not found" ]
    ELSE [ error |-> Undefined, automationEnabled |-> user.automation_enabled,
           jobActive |-> u \in DOMAIN jb,
           changeDetectionActive |-> handle # 0 ]

\* getAutomationStatus(userId) is called and awaits UserModel.findById
GetAutomationStatusCall(u) ==
    /\ status.pc \in {"idle", "returned", "rejected"}
    /\ status' = [ IdleStatus EXCEPT !.pc = "findById", !.user = u ]
    /\ UNCHANGED << detectVars, users, configOps, schedVars, fan, sweep, trig, upserts,
                    day, lastCall, boot >>

\* findById resolved: the map and the interval handle are read, the object returned
GetAutomationStatusReturns ==
    /\ status.pc = "findById"
    /\ status' = [ status EXCEPT
                     !.pc = "returned",
                     !.report = StatusReport(users[status.user], status.user, jobs,
                                             changeCheckInterval) ]
    /\ UNCHANGED << detectVars, users, configOps, schedVars, fan, sweep, trig, upserts,
                    day, lastCall, boot >>

\* findById rejected: the method has no try, the call rejects
GetAutomationStatusThrows ==
    /\ status.pc = "findById"
    /\ status' = [ status EXCEPT !.pc = "rejected" ]
    /\ UNCHANGED << detectVars, users, configOps, schedVars, fan, sweep, trig, upserts,
                    day, lastCall, boot >>

(***************************************************************************)
(* CalendarService.getTodaySummary: timed events, free blocks and the FREE *)
(* lines of the text. Times of the day are seconds after local midnight.    *)
(***************************************************************************)
Clock(h, m) == (h * 60 + m) * 60

\* faulty variant: the scan of the day starts at the time of the call
StartOfDay_Now(today) == today

\* new Date(today.getFullYear(), today.getMonth(), today.getDate(), 0, 0, 0)
StartOfDay(today) == today - (today % Clock(24, 0))

\* new Date(today.getFullYear(), today.getMonth(), today.getDate(), 23, 59, 59)
EndOfDay(today) == StartOfDay(today) + Clock(23, 59) + 59

\* the times of the day at which the summaries are asked for: today = new Date()
CallTimes == { Clock(8, 0), Clock(8, 30) }

\* the instants at which the events of the explored days start and end
DayTimes == { Clock(9, 0), Clock(9, 30), Clock(9, 44), Clock(9, 45),
              Clock(10, 0), Clock(10, 30) }

\* the events a day may hold: timed ones, and one all-day event (start.date only)
DayEvents ==
    { e \in [ dateTime : {TRUE}, start : DayTimes, end : DayTimes ] : e.start < e.end }
        \cup { [ dateTime |-> FALSE, start |-> Clock(0, 0), end |-> Clock(24, 0) ] }

\* the lists events.list may return: by start time, at most MaxEvents long
DayLists ==
    UNION { { q \in [ 1 .. n -> DayEvents ] :
                \A i \in 1 .. n - 1 : q[i].start <= q[i + 1].start } : n \in 0 .. MaxEvents }

\* e put into a list sorted by start, behind the events that start no later
RECURSIVE InsertByStart(_, _)
InsertByStart(e, sorted) ==
    IF sorted = << >> THEN << e >>
    ELSE IF Head(sorted).start <= e.start
         THEN << Head(sorted) >> \o InsertByStart(e, Tail(sorted))
         ELSE << e >> \o sorted

RECURSIVE SortTimed(_)
SortTimed(events) ==
    IF events = << >> THEN << >>
    ELSE InsertByStart(events[Len(events)], SortTimed(SubSeq(events, 1, Len(events) - 1)))

\* events.filter(event => event.start?.dateTime).sort(by start), a stable sort on
\* the new array filter returns
TimedEvents(events) == SortTimed(SelectSeq(events, LAMBDA e : e.dateTime))

\* the scan: a block before each event the cursor precedes, then
\* currentTime = eventEnd; after the last event, a block up to endOfDay
RECURSIVE FreeScan(_, _, _)
FreeScan(timedEvents, currentTime, endOfDay) ==
    IF timedEvents = << >>
    THEN IF currentTime < endOfDay
         THEN << [ start |-> currentTime, end |-> endOfDay ] >> ELSE << >>
    ELSE LET event == Head(timedEvents)
             gap == IF currentTime < event.start
                    THEN << [ start |-> currentTime, end |-> event.start ] >>
                    ELSE << >>
         IN  gap \o FreeScan(Tail(timedEvents), event.end, endOfDay)

FreeBlocks(timedEvents, today) ==
    FreeScan(timedEvents, StartOfDay(today), EndOfDay(today))

\* faulty variant: only blocks longer than 15 minutes are shown
ShownBlock_Strict(block) == block.end - block.start > MinFreeMinutes * 60

\* durationMinutes = (end - start) / (1000 * 60); if (durationMinutes >= 15)
ShownBlock(block) == block.end - block.start >= MinFreeMinutes * 60

\* the blocks that get a line in the FREE section
RenderedBlocks(freeBlocks) == SelectSeq(freeBlocks, ShownBlock)

\* toLocaleTimeString('en-US', { hour, minute }): the minute of the day
TimeStr(t) == (t % Clock(24, 0)) \div 60

\* toLocaleDateString('en-US', { weekday, month, day }): the day
DateStr(t) == t \div Clock(24, 0)

TextLine(line, a, b) == [ line |-> line, a |-> a, b |-> b ]

\* the text of the summary, line by line (the user's name, the titles and the
\* locations of the events are left out): the header with the date; then either
\* one of the two short texts, or the BUSY section with a line for each timed
\* event, the FREE section with a line for each shown block when there is a
\* free block at all, and the total
SummaryText(today, kind, timedEvents, freeBlocks) ==
    LET header == << TextLine("Schedule", DateStr(today), 0) >>
        busy == [ i \in DOMAIN timedEvents |->
                    TextLine("busy", TimeStr(timedEvents[i].start),
                             TimeStr(timedEvents[i].end)) ]
        shown == RenderedBlocks(freeBlocks)
        free == [ i \in DOMAIN shown |->
                    TextLine("free", TimeStr(shown[i].start), TimeStr(shown[i].end)) ]
    IN  IF kind = "NoEvents"
        THEN header \o << TextLine("No events scheduled for today.", 0, 0) >>
        ELSE IF kind = "NoTimedEvents"
        THEN header \o << TextLine("No timed events scheduled for today.", 0, 0) >>
        ELSE header \o << TextLine("BUSY:", 0, 0) >> \o busy
                \o ( IF Len(freeBlocks) > 0
                     THEN << TextLine("FREE:", 0, 0) >> \o free ELSE << >> )
                \o << TextLine("Total appointments", Len(timedEvents), 0) >>

\* what getTodaySummary computes from the fetched list at time today: without
\* events or without timed events it returns early, otherwise it computes the
\* free blocks and builds the text
Summary(today, events) ==
    LET kind == SummaryKind(TRUE, events)
        timedEvents == TimedEvents(events)
        freeBlocks == IF kind = "Schedule" THEN FreeBlocks(timedEvents, today) ELSE << >>
    IN  [ kind |-> kind, timedEvents |-> timedEvents, freeBlocks |-> freeBlocks,
          rendered |-> RenderedBlocks(freeBlocks),
          text |-> SummaryText(today, kind, timedEvents, freeBlocks) ]

\* getTodaySummary is called at time today and the fetch returns the list
GetTodaySummary(today, events) ==
    /\ day.pc = "idle"
    /\ LET r == Summary(today, events)
       IN  day' = [ pc |-> "done", today |-> today, events |-> events,
                    kind |-> r.kind, timedEvents |-> r.timedEvents,
                    freeBlocks |-> r.freeBlocks, rendered |-> r.rendered,
                    text |-> r.text, again |-> NoSummary ]
    /\ UNCHANGED << detectVars, users, configOps, schedVars, fan, sweep, trig, upserts,
                    lastCall, moreVars >>

\* getTodaySummary is called once more, at time today, and the fetch returns the
\* same list
GetTodaySummaryAgain(today) ==
    /\ day.pc = "done"
    /\ LET r == Summary(today, day.events)
       IN  day' = [ day EXCEPT !.pc = "again",
                               !.again = [ today |-> today, freeBlocks |-> r.freeBlocks,
                                           text |-> r.text ] ]
    /\ UNCHANGED << detectVars, users, configOps, schedVars, fan, sweep, trig, upserts,
                    lastCall, moreVars >>

(***************************************************************************)
(* Initial state: an empty snapshot table, no pass in flight; the remote   *)
(* calendars hold what their owners put there before the service started.  *)
(***************************************************************************)
InitialCalendars ==
    { { RemoteEvent("e1", "A", StartOf("e1"), 0) },
      { RemoteEvent("e2", "A", StartOf("e2"), 0) },
      { RemoteEvent("e1", Undefined, StartOf("e1"), 0),
        RemoteEvent("e2", "A", StartOf("e2"), 0) } }

AllRecipients == << "r1", "r2", "r3" >>

\* the service after construction
InitService ==
    /\ now = 0
    /\ ticks = 0
    /\ remoteOps = 0
    /\ store = << >>
    /\ users = [ u \in Users |->
                   [ exists |-> TRUE, automation_enabled |-> TRUE,
                     daily_summary_time |-> "08:00",
                     whatsapp_recipients |-> SubSeq(AllRecipients, 1, u) ] ]
    /\ configOps = 0
    /\ pass = [ p \in PassIds |-> IdlePass ]
    /\ jobs = << >>
    /\ timers = << >>
    /\ changeCheckInterval = 0
    /\ intervals = << >>
    /\ starts = [ s \in StartIds |-> IdleStart ]
    /\ summ = [ s \in SummaryIds |-> IdleSummary ]
    /\ fan = IdleFan
    /\ sweep = IdleSweep
    /\ trig = IdleTrigger
    /\ upserts = [ c \in UpsertCallers |-> IdleUpsert ]
    /\ day = IdleDay
    /\ lastCall = NoCall
    /\ status = IdleStatus
    /\ boot = IdleBoot

Init ==
    /\ InitService
    /\ \E c \in InitialCalendars :
         remote = [ u \in Users |-> IF u \in DetectUsers THEN c ELSE {} ]

\* the service started for users whose calendars are empty
InitEmptyCalendars ==
    /\ InitService
    /\ remote = [ u \in Users |-> {} ]

\* the service started for two users whose calendars hold events of the same ids
InitBothCalendars ==
    /\ InitService
    /\ remote = [ u \in Users |->
                    IF u = 1 THEN { RemoteEvent("e1", "A", StartOf("e1"), 0),
                                    RemoteEvent("e2", "A", StartOf("e2"), 0) }
                    ELSE { RemoteEvent("e1", "B", StartOf("e1"), 0) } ]

\* the remote events the normalization is explored with: titles and descriptions
\* with keywords of one set, of both and of none, every status, and an event
\* whose end lies before its start
SyncSummaries == { "Team Meeting", "Lunch", "Gym call", "update", "A", Undefined }
SyncDescriptions == { Undefined, "with the family" }
SyncStatuses == { Undefined, "confirmed", "Tentative", "tentative", "pending" }
SyncEnds == { StartOf("e1") + EventLength, StartOf("e1") - DebounceMinutes }

SyncEvents ==
    { [ RemoteEvent("e1", summary, StartOf("e1"), 0)
          EXCEPT !.description = description, !.status = st, !.end = end ] :
        summary \in SyncSummaries, description \in SyncDescriptions,
        st \in SyncStatuses, end \in SyncEnds }

\* the service started for a user whose calendar holds one of these events
InitSync ==
    /\ InitService
    /\ \E g \in SyncEvents :
         remote = [ u \in Users |-> IF u \in DetectUsers THEN {g} ELSE {} ]

Next ==
    \/ \E d \in TickSteps : Tick(d)
    \/ \E u \in DetectUsers, id \in EventIds : RemoteAdd(u, id)
    \/ \E u \in DetectUsers : \E e \in remote[u] : RemoteEdit(u, e)
    \/ \E u \in DetectUsers : \E e \in remote[u] : RemoteTouch(u, e)
    \/ \E u \in DetectUsers : \E e \in remote[u] : RemoteDelete(u, e)
    \/ \E p \in PassIds, u \in DetectUsers : SweepCheckUser(p, u)
    \/ \E p \in PassIds, u \in DetectUsers : TriggerChangeCheck(p, u)
    \/ \E p \in PassIds : FetchFails(p)
    \/ \E p \in PassIds : FetchSucceeds(p)
    \/ \E p \in PassIds : ReadStored(p)
    \/ \E p \in PassIds : SendChanges(p)
    \/ \E p \in PassIds : UpsertRead(p)
    \/ \E p \in PassIds : UpsertStore(p)
    \/ \E p \in PassIds : CancelStored(p)
    \/ \E p \in PassIds : PassReturns(p)

Spec == Init /\ [][Next]_vars

\* change detection with the passes one after the other, none overlapping another
NextSeq ==
    \/ \E d \in TickSteps : Tick(d)
    \/ \E u \in DetectUsers : \E e \in remote[u] : RemoteEdit(u, e)
    \/ \E u \in DetectUsers : \E e \in remote[u] : RemoteDelete(u, e)
    \/ \E u \in DetectUsers, id \in EventIds : RemoteRestore(u, id)
    \/ \E u \in DetectUsers : SweepCheckAlone(u)
    \/ \E p \in PassIds : FetchFails(p)
    \/ \E p \in PassIds : FetchSucceeds(p)
    \/ \E p \in PassIds : ReadStored(p)
    \/ \E p \in PassIds : SendChanges(p)
    \/ \E p \in PassIds : UpsertRead(p)
    \/ \E p \in PassIds : UpsertStore(p)
    \/ \E p \in PassIds : CancelStored(p)
    \/ \E p \in PassIds : PassReturns(p)

SpecSeq == Init /\ [][NextSeq]_vars

\* change detection for two users, their passes interleaving
NextScope ==
    \/ \E d \in TickSteps : Tick(d)
    \/ \E u \in Users : \E e \in remote[u] : RemoteEdit(u, e)
    \/ \E u \in Users : \E e \in remote[u] : RemoteDelete(u, e)
    \/ \E p \in PassIds, u \in Users : SweepCheckUser(p, u)
    \/ \E p \in PassIds : FetchFails(p)
    \/ \E p \in PassIds : FetchSucceeds(p)
    \/ \E p \in PassIds : ReadStored(p)
    \/ \E p \in PassIds : SendChanges(p)
    \/ \E p \in PassIds : UpsertRead(p)
    \/ \E p \in PassIds : UpsertStore(p)
    \/ \E p \in PassIds : CancelStored(p)
    \/ \E p \in PassIds : PassReturns(p)

SpecScope == InitBothCalendars /\ [][NextScope]_vars

\* the passes that store the events of a calendar, one after the other
NextSync ==
    \/ \E u \in DetectUsers : SweepCheckAlone(u)
    \/ \E p \in PassIds : FetchFails(p)
    \/ \E p \in PassIds : FetchSucceeds(p)
    \/ \E p \in PassIds : ReadStored(p)
    \/ \E p \in PassIds : SendChanges(p)
    \/ \E p \in PassIds : UpsertRead(p)
    \/ \E p \in PassIds : UpsertStore(p)
    \/ \E p \in PassIds : UpsertRejected(p)
    \/ \E p \in PassIds : PassReturns(p)

SpecSync == InitSync /\ [][NextSync]_vars

\* sweeps, the remote calendar changing only before a sweep fetches it, and
\* after the last sweep one manual change check
NextRepeat ==
    \/ \E d \in TickSteps : Tick(d)
    \/ \E u \in DetectUsers : \E e \in remote[u] : sweep.pc = "query" /\ RemoteEdit(u, e)
    \/ \E u \in DetectUsers : \E e \in remote[u] : sweep.pc = "query" /\ RemoteDelete(u, e)
    \/ trig.pc = "idle" /\ SweepStart
    \/ \E q \in Orderings(EnabledUsers) : SweepQuery(q)
    \/ \E p \in PassIds : SweepCheck(p)
    \/ SweepAwait
    \/ SweepReturns
    \/ \E u \in DetectUsers :
          sweep.pc = "returned" /\ trig.pc = "idle" /\ TriggerChangeCheckCall(u)
    \/ \E p \in PassIds : TriggerChangeCheckFinds(p)
    \/ TriggerChangeCheckReturns
    \/ \E p \in PassIds : FetchFails(p)
    \/ \E p \in PassIds : FetchSucceeds(p)
    \/ \E p \in PassIds : ReadStored(p)
    \/ \E p \in PassIds : SendChanges(p)
    \/ \E p \in PassIds : UpsertRead(p)
    \/ \E p \in PassIds : UpsertStore(p)
    \/ \E p \in PassIds : CancelStored(p)

SpecRepeat == Init /\ [][NextRepeat]_vars

\* starts and stops of the users' jobs; once stopAllAutomations has run, no start
\* is called until one of the starts it found in flight has returned
NextRace ==
    \/ \E s \in StartIds, u \in Users :
          lastCall.op # "stopAllAutomations" /\ StartUserCall(s, u)
    \/ \E s \in StartIds : StartUserSkips(s)
    \/ \E s \in StartIds : StartUserInstalls(s)
    \/ \E u \in Users : StopUserAutomation(u)
    \/ StopAllAutomations
    \/ \E u \in Users, b \in BOOLEAN : ConfigSetEnabled(u, b)

SpecRace == InitEmptyCalendars /\ [][NextRace]_vars

\* concurrent starts, each with its config read in flight, while the users
\* change their summary time; a time is changed only while a start of the user
\* has still to read the config, so that the read made last is later than
\* every change
NextConfig ==
    \/ \E s \in StartIds, u \in Users : StartUserCall(s, u)
    \/ \E s \in StartIds : StartUserReads(s)
    \/ \E s \in StartIds : StartUserResumes(s)
    \/ \E u \in Users, t \in SummaryTimes :
          /\ \E s \in StartIds : starts[s].pc = "findById" /\ starts[s].user = u
          /\ ConfigSetTime(u, t)

SpecConfig == InitEmptyCalendars /\ [][NextConfig]_vars

\* the scheduler: per-user cron jobs, the global interval, configuration changes
NextSched ==
    \/ \E s \in StartIds, u \in Users : StartUserCall(s, u)
    \/ \E s \in StartIds : StartUserSkips(s)
    \/ \E s \in StartIds : StartUserInstalls(s)
    \/ \E u \in Users : StopUserAutomation(u)
    \/ StartChangeDetection
    \/ StopChangeDetection
    \/ StopAllAutomations
    \/ \E u \in Users, b \in BOOLEAN : ConfigSetEnabled(u, b)
    \/ \E u \in Users : ConfigDelete(u)

SpecSched == InitEmptyCalendars /\ [][NextSched]_vars

\* the daily-summary passes, started by the users' cron jobs and by manual triggers
NextSummary ==
    \/ \E s \in StartIds, u \in Users : StartUserCall(s, u)
    \/ \E s \in StartIds : StartUserSkips(s)
    \/ \E s \in StartIds : StartUserInstalls(s)
    \/ \E u \in Users : StopUserAutomation(u)
    \/ \E u \in Users, b \in BOOLEAN : ConfigSetEnabled(u, b)
    \/ \E u \in Users : ConfigDelete(u)
    \/ \E t \in DOMAIN timers, s \in SummaryIds : TimerFires(t, s)
    \/ \E s \in SummaryIds, u \in Users : TriggerDailySummary(s, u)
    \/ \E s \in SummaryIds : SummaryConfig(s)
    \/ \E s \in SummaryIds : SummaryLookup(s)
    \/ \E s \in SummaryIds : SummaryFetchFails(s)
    \/ \E s \in SummaryIds : SummaryFetchSucceeds(s)
    \/ \E s \in SummaryIds : SummarySend(s)
    \/ \E s \in SummaryIds : SummaryReturns(s)

SpecSummary == Init /\ [][NextSummary]_vars

\* the firings of the users' cron jobs, while users are started, stopped and
\* reconfigured: every daily-summary pass is begun by a timer
NextFiring ==
    \/ \E s \in StartIds, u \in Users : StartUserCall(s, u)
    \/ \E s \in StartIds : StartUserSkips(s)
    \/ \E s \in StartIds : StartUserInstalls(s)
    \/ \E u \in Users : StopUserAutomation(u)
    \/ StopAllAutomations
    \/ \E u \in Users, b \in BOOLEAN : ConfigSetEnabled(u, b)
    \/ \E u \in Users : ConfigDelete(u)
    \/ \E t \in DOMAIN timers, s \in SummaryIds : TimerFires(t, s)
    \/ \E s \in SummaryIds : SummaryConfig(s)
    \/ \E s \in SummaryIds : SummaryLookup(s)
    \/ \E s \in SummaryIds : SummaryFetchFails(s)
    \/ \E s \in SummaryIds : SummaryFetchSucceeds(s)
    \/ \E s \in SummaryIds : SummarySend(s)
    \/ \E s \in SummaryIds : SummaryReturns(s)

SpecFiring == Init /\ [][NextFiring]_vars

\* the cycles begun by the cron jobs and by the global interval, one cycle at a
\* time, while users and the change detection are started and stopped
NextInFlight ==
    \/ \E u \in Users : StartUserCall(1, u)
    \/ \E s \in StartIds : StartUserInstalls(s)
    \/ StartChangeDetection
    \/ \E u \in Users : StopUserAutomation(u)
    \/ StopAllAutomations
    \/ \E t \in DOMAIN timers, s \in SummaryIds :
          sweep.pc \in {"idle", "returned"} /\ TimerFires(t, s)
    \/ \E s \in SummaryIds : SummaryConfig(s)
    \/ \E s \in SummaryIds : SummaryLookup(s)
    \/ \E s \in SummaryIds : SummaryFetchFails(s)
    \/ \E s \in SummaryIds : SummaryFetchSucceeds(s)
    \/ \E s \in SummaryIds : SummarySend(s)
    \/ \E s \in SummaryIds : SummaryReturns(s)
    \/ \E i \in DOMAIN intervals :
          (\A s \in SummaryIds : summ[s].pc = "idle") /\ IntervalFires(i)
    \/ \E q \in Orderings(EnabledUsers) : SweepQuery(q)
    \/ \E p \in PassIds : SweepCheck(p)
    \/ SweepAwait
    \/ SweepReturns
    \/ \E p \in PassIds : FetchFails(p)
    \/ \E p \in PassIds : FetchSucceeds(p)
    \/ \E p \in PassIds : ReadStored(p)
    \/ \E p \in PassIds : SendChanges(p)
    \/ \E p \in PassIds : UpsertRead(p)
    \/ \E p \in PassIds : UpsertStore(p)

SpecInFlight == Init /\ [][NextInFlight]_vars

\* the sweeps of the change-detection interval over the enabled users
NextSweep ==
    \/ SweepStart
    \/ \E q \in Orderings(EnabledUsers) : SweepQuery(q)
    \/ SweepQueryFails
    \/ \E p \in PassIds : SweepCheck(p)
    \/ SweepAwait
    \/ SweepReturns
    \/ \E p \in PassIds : FetchFails(p)
    \/ \E p \in PassIds : FetchSucceeds(p)
    \/ \E p \in PassIds : ReadStored(p)
    \/ \E p \in PassIds : ReadStoredThrows(p)
    \/ \E p \in PassIds : SendChanges(p)
    \/ \E p \in PassIds : UpsertRead(p)
    \/ \E p \in PassIds : UpsertStore(p)
    \/ \E p \in PassIds : StoreWriteThrows(p)
    \/ \E p \in PassIds : CancelStored(p)
    \/ \E u \in DetectUsers : \E e \in remote[u] : RemoteDelete(u, e)
    \/ \E u \in Users, b \in BOOLEAN : ConfigSetEnabled(u, b)
    \/ \E u \in Users : ConfigDelete(u)

SpecSweep == Init /\ [][NextSweep]_vars

\* the steps of a sweep the event loop runs as soon as they are ready: its own
\* continuations and those behind the awaited calls to the snapshot store
SweepSteps ==
    \/ \E q \in Orderings(EnabledUsers) : SweepQuery(q)
    \/ SweepQueryFails
    \/ \E p \in PassIds : SweepCheck(p)
    \/ SweepAwait
    \/ SweepReturns

StoreSteps(p) ==
    \/ ReadStored(p)
    \/ ReadStoredThrows(p)
    \/ UpsertRead(p)
    \/ UpsertStore(p)
    \/ StoreWriteThrows(p)
    \/ CancelStored(p)

\* the sweeps, with every ready step of the program eventually taken. The
\* answers of the calendar API (events.list, called with calendarId, timeMin,
\* timeMax, singleEvents and orderBy only) and of the messaging API (axios.post,
\* called with headers only) come when the collaborator sends them: neither call
\* sets a timeout, so nothing in the program makes FetchFails, FetchSucceeds or
\* SendChanges happen
SpecWait ==
    /\ Init
    /\ [][NextSweep]_vars
    /\ WF_vars(SweepSteps)
    /\ \A p \in PassIds : WF_vars(StoreSteps(p))

\* the startup, while the users change their settings
NextBoot ==
    \/ StartAllCall
    \/ \E q \in Orderings(EnabledUsers) : StartAllQuery(q)
    \/ StartAllQueryFails
    \/ \E s \in StartIds : StartAllStart(s)
    \/ \E s \in StartIds : StartUserSkips(s)
    \/ \E s \in StartIds : StartUserInstalls(s)
    \/ \E s \in StartIds : StartUserThrows(s)
    \/ StartAllAwait
    \/ StartAllDetect
    \/ \E u \in Users, b \in BOOLEAN : ConfigSetEnabled(u, b)
    \/ \E u \in Users : ConfigDelete(u)

SpecBoot == InitEmptyCalendars /\ [][NextBoot]_vars

\* the status reports, asked for while users are started, stopped and reconfigured
NextStatus ==
    \/ \E s \in StartIds, u \in Users : StartUserCall(s, u)
    \/ \E s \in StartIds : StartUserSkips(s)
    \/ \E s \in StartIds : StartUserInstalls(s)
    \/ \E u \in Users : StopUserAutomation(u)
    \/ StartChangeDetection
    \/ StopChangeDetection
    \/ \E u \in Users, b \in BOOLEAN : ConfigSetEnabled(u, b)
    \/ \E u \in Users : ConfigDelete(u)
    \/ \E u \in Users : GetAutomationStatusCall(u)
    \/ GetAutomationStatusReturns
    \/ GetAutomationStatusThrows

SpecStatus == InitEmptyCalendars /\ [][NextStatus]_vars

\* the snapshot store under overlapping upsert calls
NextStore ==
    \/ \E d \in TickSteps : Tick(d)
    \/ \E c \in UpsertCallers, d \in UpsertInputs : UpsertCall(c, d)
    \/ \E c \in UpsertCallers : UpsertCommit(c)

SpecStore == InitEmptyCalendars /\ [][NextStore]_vars

\* the manual triggers, one call at a time, with every outcome of the collaborators
NextTrigger ==
    \/ \E u \in Users : TriggerChangeCheckCall(u)
    \/ \E p \in PassIds : TriggerChangeCheckFinds(p)
    \/ TriggerChangeCheckNoUser
    \/ TriggerFindByIdThrows
    \/ TriggerChangeCheckReturns
    \/ \E s \in SummaryIds, u \in Users : TriggerDailySummaryCall(s, u)
    \/ TriggerDailySummaryReturns
    \/ \E p \in PassIds : FetchFails(p)
    \/ \E p \in PassIds : FetchSucceeds(p)
    \/ \E p \in PassIds : ReadStored(p)
    \/ \E p \in PassIds : ReadStoredThrows(p)
    \/ \E p \in PassIds : SendChanges(p)
    \/ \E p \in PassIds : UpsertRead(p)
    \/ \E p \in PassIds : UpsertStore(p)
    \/ \E p \in PassIds : StoreWriteThrows(p)
    \/ \E p \in PassIds : CancelStored(p)
    \/ \E s \in SummaryIds : SummaryConfig(s)
    \/ \E s \in SummaryIds : SummaryConfigThrows(s)
    \/ \E s \in SummaryIds : SummaryNotifyError(s)
    \/ \E s \in SummaryIds : SummaryLookup(s)
    \/ \E s \in SummaryIds : SummaryFetchFails(s)
    \/ \E s \in SummaryIds : SummaryFetchSucceeds(s)
    \/ \E s \in SummaryIds : SummarySend(s)
    \/ \E u \in DetectUsers : \E e \in remote[u] : RemoteDelete(u, e)
    \/ \E u \in Users, b \in BOOLEAN : ConfigSetEnabled(u, b)
    \/ \E u \in Users : ConfigDelete(u)

SpecTrigger == Init /\ [][NextTrigger]_vars

\* the summary of a day, computed for every list of events within the bounds
NextDay ==
    \/ \E today \in CallTimes, events \in DayLists : GetTodaySummary(today, events)
    \/ \E today \in CallTimes : GetTodaySummaryAgain(today)

SpecDay == InitEmptyCalendars /\ [][NextDay]_vars

\* one fan-out of the dispatcher, send by send
NextFanOut ==
    \/ \E kind \in {"dailySummary", "changeNotification"}, n \in 0 .. MaxRecipients,
          credentials \in BOOLEAN : FanOutCall(kind, n, credentials)
    \/ \E i \in 1 .. MaxRecipients, post \in PostOutcomes : SendSettles(i, post)
    \/ FanOutReturns
    \/ FanOutReset

SpecFanOut == InitEmptyCalendars /\ [][NextFanOut]_vars

(***************************************************************************)
(* Properties of the change-detection pass.                                *)
(***************************************************************************)
\* the step is taken by pass p
StepOf(p) == pass'[p] # pass[p]

InWindow(row, today) ==
    row.start_time >= today /\ row.start_time < today + WindowMinutes

\* C1. Fetch-failure isolation: every step of a pass whose fetch has not
\* succeeded (the fetch was signalled as failed) leaves the snapshot table as it
\* is, and the pass ends with an empty change list: no 'deleted' record, no row
\* created, modified or cancelled.
C1_FetchFailureIsolation ==
    [][ \A p \in PassIds :
          (StepOf(p) /\ ~pass'[p].fetchOk) =>
              /\ store' = store
              /\ pass'[p].changes = << >> ]_vars

\* a pass ended on a failed fetch while rows of its user were stored in its window
C1_Witness ==
    \E p \in PassIds :
        /\ pass[p].pc = "done" /\ ~pass[p].fetchOk
        /\ findByUserIdAndDateRange(pass[p].user, pass[p].today,
                                    pass[p].today + WindowMinutes) # << >>

\* C2. A successful fetch of zero events yields exactly one 'deleted' record
\* for every stored row of the user in the window that is not CANCELLED, and
\* nothing else.
C2_EmptyFetchDeletesAll ==
    [][ \A p \in PassIds :
          (pass[p].pc = "read" /\ StepOf(p) /\ pass[p].google = << >>) =>
              LET expected == { k \in DOMAIN store :
                                  /\ k[1] = pass[p].user
                                  /\ store[k].status # CANCELLED
                                  /\ InWindow(store[k], pass[p].today) }
                  got == pass'[p].changes
              IN  /\ Len(got) = Cardinality(expected)
                  /\ \A i \in DOMAIN got : got[i].type = "deleted"
                  /\ { Key(pass[p].user, got[i].id) : i \in DOMAIN got } = expected ]_vars

\* a successful empty fetch produced 'deleted' records while some row of the user
\* (cancelled, or outside the window) was left out
C2_Witness ==
    \E p \in PassIds :
        /\ pass[p].pc = "send" /\ pass[p].fetchOk /\ pass[p].google = << >>
        /\ Len(pass[p].changes) >= 1

\* C4. Reentrancy guard: at most one change-detection pass per user in flight.
C4_AtMostOneInFlight ==
    \A u \in Users :
        Cardinality({ p \in PassIds : pass[p].user = u
                                      /\ pass[p].pc \notin {"idle", "done"} }) <= 1

\* C5. Soft delete: processing a 'deleted' record sets the row's status to
\* CANCELLED and keeps the row; no step removes a row; and a pass that reads the
\* store once the row is CANCELLED emits no 'deleted' record for it.
C5_SoftDelete ==
    [][ /\ DOMAIN store \subseteq DOMAIN store'
        /\ \A p \in PassIds :
             /\ ( /\ StepOf(p) /\ pass[p].pc = "process"
                  /\ pass[p].changes[pass[p].idx].type = "deleted" ) =>
                    LET k == Key(pass[p].user, pass[p].changes[pass[p].idx].id)
                    IN  k \in DOMAIN store' /\ store'[k].status = CANCELLED
             /\ ( StepOf(p) /\ pass[p].pc = "read" ) =>
                    \A i \in DOMAIN pass'[p].changes :
                        LET c == pass'[p].changes[i]
                            k == Key(pass[p].user, c.id)
                        IN  c.type = "deleted" =>
                              k \in DOMAIN store /\ store[k].status # CANCELLED ]_vars

\* a row was cancelled and a later pass whose successful fetch does not hold the
\* event returned no change
C5_Witness ==
    \E p \in PassIds : \E k \in DOMAIN store :
        /\ store[k].status = CANCELLED /\ k[1] = pass[p].user
        /\ InWindow(store[k], pass[p].today)
        /\ pass[p].pc = "done" /\ pass[p].fetchOk /\ pass[p].changes = << >>
        /\ \A g \in Range(pass[p].google) : g.id # k[2]
        /\ pass[p].today >= store[k].last_modified

\* C6. Materiality filter: a 'modified' record is emitted only for an event of
\* which some compared field, the remote one normalised as it is stored, differs
\* from the stored row.
C6_MaterialityFilter ==
    [][ \A p \in PassIds :
          ( StepOf(p) /\ pass[p].pc = "read" ) =>
              \A i \in DOMAIN pass'[p].changes :
                  LET c == pass'[p].changes[i]
                  IN  c.type = "modified" =>
                        HasChanged(store[Key(pass[p].user, c.id)],
                                   EventData(pass[p].user, GoogleEvent(p, c.id))) ]_vars

\* the compared fields as the code reads them, the remote ones without the defaults of syncEvents
FieldDiffers(row, g) ==
    \/ row.summary # g.summary
    \/ row.description # (IF g.description = Undefined THEN "" ELSE g.description)
    \/ row.location # (IF g.location = Undefined THEN "" ELSE g.location)
    \/ row.start_time # g.start
    \/ row.end_time # g.end
    \/ row.status # (IF g.status = Undefined THEN CONFIRMED ELSE g.status)

C10_SendFailureNoMutation ==
    [][ \A p \in PassIds :
          ( StepOf(p) /\ pass[p].pc \in {"process", "upsert"} /\ ~pass[p].sendOk ) =>
              store' = store ]_vars

(***************************************************************************)
(* Properties of the scheduler.                                            *)
(***************************************************************************)
RunningTimers(u) ==
    { t \in DOMAIN timers : timers[t].user = u /\ timers[t].running }

\* C3. Scheduler restart safety: every running timer is the one the jobs map
\* holds for its user, so at most one timer per user runs and every timer that
\* was replaced or removed from the map has been stopped.
C3_RestartSafety ==
    /\ \A t \in DOMAIN timers :
          timers[t].running =>
              timers[t].user \in DOMAIN jobs /\ jobs[timers[t].user] = t
    /\ \A u \in Users : Cardinality(RunningTimers(u)) <= 1

\* a user was started twice: the first timer is stopped, the second runs, and a
\* further start of the same user is still waiting for its config read
C3_Witness ==
    \E u \in Users :
        /\ \E t \in DOMAIN timers : timers[t].user = u /\ ~timers[t].running
        /\ RunningTimers(u) # {}
        /\ \E s \in StartIds : starts[s].pc = "findById" /\ starts[s].user = u

\* C14. startUserAutomation for a user whose config is absent or disabled: when
\* its config read resolves the call returns without an error, and the jobs map,
\* the timers and the global interval are as they were.
C14_StartDisabledIsNoOp ==
    [][ \A s \in StartIds :
          ( /\ starts[s].pc = "findById" /\ starts'[s] # starts[s]
            /\ ~users[starts[s].user].exists
               \/ ~users[starts[s].user].automation_enabled ) =>
              /\ jobs' = jobs /\ timers' = timers
              /\ changeCheckInterval' = changeCheckInterval /\ intervals' = intervals
              /\ starts'[s] = IdleStart
              /\ lastCall' = [ op |-> "startUserAutomation:skipped",
                               user |-> starts[s].user ] ]_vars

\* a start returned for a user who was disabled or deleted after an earlier
\* start: the timer of that earlier start is still in the map, running
C14_Witness ==
    \E u \in Users :
        /\ lastCall = [ op |-> "startUserAutomation:skipped", user |-> u ]
        /\ ~users[u].exists \/ ~users[u].automation_enabled
        /\ u \in DOMAIN jobs /\ timers[jobs[u]].running

\* C15. stopUserAutomation is idempotent: in every state of the scheduler, a stop
\* of a user without a job changes nothing; a stop leaves the user without a
\* job and without a running timer; a second stop changes nothing more; and the
\* jobs and timers of the other users are untouched.
C15_StopIdempotent ==
    \A u \in Users :
        LET timers1 == StopJob(timers, jobs, u)
            jobs1 == DeleteJob(jobs, u)
        IN  /\ u \notin DOMAIN jobs => timers1 = timers /\ jobs1 = jobs
            /\ u \notin DOMAIN jobs1
            /\ \A t \in DOMAIN timers1 : timers1[t].user = u => ~timers1[t].running
            /\ StopJob(timers1, jobs1, u) = timers1
            /\ DeleteJob(jobs1, u) = jobs1
            /\ \A t \in DOMAIN timers : timers[t].user # u => timers1[t] = timers[t]
            /\ \A v \in DOMAIN jobs : v # u => v \in DOMAIN jobs1 /\ jobs1[v] = jobs[v]

\* a user was started and stopped, and has no job, while another user's timer runs
C15_Witness ==
    \E u, v \in Users :
        /\ u # v /\ u \notin DOMAIN jobs
        /\ \E t \in DOMAIN timers : timers[t].user = u /\ ~timers[t].running
        /\ v \in DOMAIN jobs /\ timers[jobs[v]].running

\* C17. Shutdown: when stopAllAutomations returns no per-user timer runs, the
\* jobs map is empty, and no change-detection interval is live.
C17_Shutdown ==
    [][ ( /\ lastCall.op # "stopAllAutomations"
          /\ lastCall'.op = "stopAllAutomations" ) =>
            /\ \A t \in DOMAIN timers' : ~timers'[t].running
            /\ jobs' = << >>
            /\ changeCheckInterval' = 0
            /\ \A i \in DOMAIN intervals' : ~intervals'[i] ]_vars

(***************************************************************************)
(* Properties of the dispatcher.                                           *)
(***************************************************************************)
\* C8. Fan-out partial success: every recipient of the list gets exactly one
\* send, whatever happens to the others; the call returns only when every send
\* has settled, and returns true exactly when some recipient's send succeeded.
C8_FanOutPartialSuccess ==
    /\ fan.pc # "idle" =>
          /\ DOMAIN fan.attempts = DOMAIN fan.settled
          /\ \A i \in DOMAIN fan.attempts : fan.attempts[i] = 1
    /\ fan.pc = "returned" =>
          /\ \A i \in DOMAIN fan.settled : fan.settled[i] # "pending"
          /\ fan.result <=> \E i \in DOMAIN fan.settled : fan.settled[i] = "true"

\* 3 recipients, the second failed: success with 2 of 3 delivered
C8_Witness ==
    /\ fan.pc = "returned"
    /\ fan.settled = << "true", "false", "true" >>
    /\ fan.attempts = << 1, 1, 1 >>
    /\ fan.result

(***************************************************************************)
(* Properties of the daily-summary pass.                                   *)
(***************************************************************************)
\* C9. A failed fetch is told apart from an empty day: no pass whose fetch
\* failed sends the recipients the summary of a day without events.
C9_FailedFetchNotSentAsEmptyDay ==
    \A s \in SummaryIds :
        ~( summ[s].sent /\ ~summ[s].fetchOk /\ summ[s].kind = "NoEvents" )

(***************************************************************************)
(* Properties of the sweep.                                                *)
(***************************************************************************)
\* C11. Sweep isolation: the list a sweep works on is the set of the users that
\* are enabled when the query is answered; a pass is begun only for the next
\* user of that list; and whatever failed while a user was processed, the sweep
\* returns only when every user of the list has been processed, in its order.
C11_SweepIsolation ==
    [][ /\ ( sweep.pc = "query" /\ sweep'.pc = "loop" ) =>
               { sweep'.queried[i].id : i \in DOMAIN sweep'.queried } = EnabledUsers
        /\ \A p \in PassIds :
               ( pass[p].pc = "idle" /\ pass'[p].pc = "fetch" ) =>
                   /\ sweep.queue # << >>
                   /\ pass'[p].user = Head(sweep.queue).id
                   /\ \E i \in DOMAIN sweep.queried : sweep.queried[i].id = pass'[p].user
        /\ sweep'.pc = "loop" /\ sweep'.cur = 0 =>
               sweep'.processed \o Ids(sweep'.queue) = Ids(sweep'.queried)
        /\ sweep'.pc = "returned" => sweep'.processed = Ids(sweep'.queried) ]_vars

\* a sweep over two users returned: the first user's pass met a failure and the
\* second was processed after it
C11_Witness ==
    /\ sweep.pc = "returned"
    /\ Len(sweep.queried) = 2
    /\ sweep.processed = Ids(sweep.queried)
    /\ sweep.processed[1] \in sweep.failed

(***************************************************************************)
(* Properties of the snapshot store.                                       *)
(***************************************************************************)
\* the step in which the write of caller c's upsert is executed
Commits(c) == upserts[c].pc = "write" /\ upserts'[c].pc = "returned"

\* the row holds the field values of the data
HoldsData(row, d) ==
    /\ row.user_id = d.user_id /\ row.event_id = d.event_id
    /\ row.summary = d.summary /\ row.description = d.description
    /\ row.location = d.location /\ row.start_time = d.start_time
    /\ row.end_time = d.end_time /\ row.all_day = d.all_day
    /\ row.status = d.status /\ row.attendees = d.attendees

\* C12. Upsert uniqueness: whenever the write of an upsert is executed, however
\* the calls overlap, the table holds one row for the call's key, with the field
\* values of that call (the most recent one: the call whose write came last), and
\* every row of another key is as it was; a call that has not written yet
\* changes no row.
C12_UpsertUniqueness ==
    [][ /\ \A c \in UpsertCallers :
             Commits(c) =>
                 LET d == upserts[c].d[1]
                     k == Key(d.user_id, d.event_id)
                 IN  /\ k \in DOMAIN store' /\ HoldsData(store'[k], d)
                     /\ DOMAIN store' = DOMAIN store \cup {k}
                     /\ \A kk \in DOMAIN store : kk # k => store'[kk] = store[kk]
        /\ ( \A c \in UpsertCallers : ~Commits(c) ) => store' = store ]_vars

\* two calls for one key overlap: one has written its data, the other read the
\* row before that write and has not written yet, while a row of another key exists
C12_Witness ==
    \E c1, c2 \in UpsertCallers :
        /\ upserts[c1].pc = "write" /\ upserts[c2].pc = "returned"
        /\ LET d1 == upserts[c1].d[1]
               d2 == upserts[c2].d[1]
               k == Key(d1.user_id, d1.event_id)
           IN  /\ Key(d2.user_id, d2.event_id) = k /\ d1 # d2
               /\ k \in DOMAIN store /\ HoldsData(store[k], d2)
               /\ upserts[c1].hasChanged # HasChanged(store[k], d1)
               /\ \E kk \in DOMAIN store : kk # k

\* the stored row and the data have the same content, the attendees taken as a set
SameContent(row, d) ==
    /\ row.summary = d.summary /\ row.description = d.description
    /\ row.location = d.location /\ row.start_time = d.start_time
    /\ row.end_time = d.end_time /\ row.status = d.status
    /\ Range(row.attendees) = Range(d.attendees)

\* C13. lastModified advances only on a content change: an upsert whose data has
\* the content of the stored row, the attendees in whatever order, leaves the
\* row's last_modified as it is (stated for the calls between whose read and
\* write no other call has changed the row).
C13_LastModifiedOnlyOnChange ==
    [][ \A c \in UpsertCallers :
          Commits(c) =>
              LET d == upserts[c].d[1]
                  k == Key(d.user_id, d.event_id)
              IN  ( /\ k \in DOMAIN store /\ SameContent(store[k], d)
                    /\ upserts[c].hasChanged = HasChanged(store[k], d) ) =>
                      store'[k].last_modified = store[k].last_modified ]_vars

(***************************************************************************)
(* Properties of the manual triggers.                                      *)
(***************************************************************************)
\* C16. Manual triggers never throw: no trigger call ends rejected; a call that
\* has returned holds a record with a boolean success, a message when it
\* succeeded and an error string when it did not.
C16_TriggersNeverThrow ==
    /\ trig.pc # "rejected"
    /\ trig.pc = "returned" =>
          /\ trig.result.success \in BOOLEAN
          /\ trig.result.success =>
                trig.result.message \in {"Change check completed",
                                         "Daily summary sent successfully"}
          /\ ~trig.result.success =>
                trig.result.error \in {"User not found", "user store error"}

\* triggerChangeCheck returned for a user who is absent
C16_Witness ==
    /\ trig.pc = "returned" /\ trig.op = "changeCheck"
    /\ ~users[trig.user].exists
    /\ trig.result = [ success |-> FALSE, message |-> Undefined,
                       error |-> "User not found" ]

(***************************************************************************)
(* Properties of the day's summary.                                        *)
(***************************************************************************)
Overlap(a, b) == a.start < b.end /\ b.start < a.end

\* C18. Free blocks never overlap a timed event: every free block of a computed
\* summary is disjoint from every timed event of the day, and the free blocks
\* come in increasing order without overlapping each other.
C18_FreeBlocksDisjoint ==
    day.pc = "done" =>
        /\ \A i \in DOMAIN day.freeBlocks : \A j \in DOMAIN day.timedEvents :
              ~Overlap(day.freeBlocks[i], day.timedEvents[j])
        /\ \A i, j \in DOMAIN day.freeBlocks :
              i < j => day.freeBlocks[i].end <= day.freeBlocks[j].start

C20_BoundedWaiting ==
    /\ (sweep.pc = "loop") ~> (sweep.pc = "returned")
    /\ \A p \in PassIds :
          (pass[p].pc \in {"fetch", "send"}) ~> (pass[p].pc \notin {"fetch", "send"})

C22_IdempotentRendering ==
    [][ day' # day =>
          /\ jobs' = jobs /\ timers' = timers
          /\ changeCheckInterval' = changeCheckInterval /\ intervals' = intervals
          /\ users' = users /\ store' = store
          /\ ( day'.pc = "again" /\ DateStr(day'.again.today) = DateStr(day'.today) ) =>
                /\ day'.again.text = day'.text
                /\ day'.again.freeBlocks = day'.freeBlocks ]_vars

\* a schedule with free blocks was computed twice, at two times of the same day
C22_Witness ==
    /\ day.pc = "again" /\ day.kind = "Schedule"
    /\ day.again.today # day.today /\ DateStr(day.again.today) = DateStr(day.today)
    /\ Len(day.freeBlocks) >= 2 /\ Len(day.rendered) < Len(day.freeBlocks)
    /\ day.again.text = day.text

\* C28. All-day events are reported separately: the text of a computed summary
\* has a line for every all-day event of the fetched list, apart from the lines
\* of the timed events, and the free blocks are those of the timed events alone.
C28_AllDayReportedSeparately ==
    day.pc # "idle" =>
        /\ \A i \in DOMAIN day.events :
              ~day.events[i].dateTime =>
                  \E j \in DOMAIN day.text : day.text[j].line = "all-day"
        /\ day.kind = "Schedule" =>
              day.freeBlocks =
                  Summary(day.today, SelectSeq(day.events, LAMBDA e : e.dateTime)).freeBlocks

(***************************************************************************)
(* Further properties of the change-detection pass.                        *)
(***************************************************************************)
\* C23. CANCELLED is terminal: no step changes the status of a snapshot row that
\* is CANCELLED, whether or not the remote calendar holds an event of its id again.
C23_CancelledIsTerminal ==
    [][ \A k \in DOMAIN store :
          store[k].status = CANCELLED =>
              k \in DOMAIN store' /\ store'[k].status = CANCELLED ]_vars

\* C24. 'added' only on the first sighting: the change list a pass computes has
\* no 'added' record for an event of which the table holds a row that is not
\* CANCELLED.
C24_AddedOnlyOnFirstSighting ==
    [][ \A p \in PassIds :
          ( StepOf(p) /\ pass[p].pc = "read" ) =>
              \A i \in DOMAIN pass'[p].changes :
                  LET c == pass'[p].changes[i]
                      k == Key(pass[p].user, c.id)
                  IN  c.type = "added" =>
                        k \notin DOMAIN store \/ store[k].status = CANCELLED ]_vars

\* the position of the element with the id in a list of events or of rows
PosIn(seq, id, field) == CHOOSE i \in DOMAIN seq : seq[i][field] = id

\* C25. No partial write-back: no pass writes to the snapshot table before its
\* fetch has succeeded and its change list is computed, and a pass that has
\* ended has written either every change of its list or none of them.
C25_NoPartialWriteBack ==
    \A p \in PassIds :
        /\ pass[p].pc \in {"process", "upsert"} =>
              pass[p].fetchOk /\ pass[p].changes # << >>
        /\ ( pass[p].pc = "done" /\ pass[p].changes # << >> ) =>
              pass[p].idx = 1 \/ pass[p].idx = Len(pass[p].changes) + 1

StopStep ==
    \/ \E t \in DOMAIN timers : timers[t].running /\ ~timers'[t].running
    \/ \E u \in DOMAIN jobs : u \notin DOMAIN jobs'
    \/ \E i \in DOMAIN intervals : intervals[i] /\ ~intervals'[i]

\* the next step of a daily-summary cycle, with collaborators that answer
SummaryStep(s) ==
    \/ SummaryConfig(s)
    \/ SummaryLookup(s)
    \/ SummaryFetchSucceeds(s)
    \/ SummarySend(s)
    \/ SummaryReturns(s)

\* the next step of a change-detection pass, with collaborators that answer
PassStep(p) ==
    \/ FetchSucceeds(p)
    \/ ReadStored(p)
    \/ SendChanges(p)
    \/ UpsertRead(p)
    \/ UpsertStore(p)
    \/ CancelStored(p)

\* C29. Cancellation does not interrupt work in flight: a step that stops a
\* user's job or the change detection leaves every daily-summary cycle, every
\* change-detection pass, the sweep and the snapshot table as they are; and
\* whatever has been stopped, a cycle in flight has its next step to take, up to
\* its send and its last write.
C29_StopSparesWorkInFlight ==
    /\ [][ StopStep =>
             /\ summ' = summ /\ pass' = pass /\ sweep' = sweep
             /\ store' = store /\ fan' = fan ]_vars
    /\ [](\A s \in SummaryIds :
             summ[s].pc \in {"config", "lookup", "fetch", "send", "done"} =>
                 ENABLED SummaryStep(s))
    /\ [](\A p \in PassIds :
             pass[p].pc \in {"fetch", "read", "send", "process", "upsert"} =>
                 ENABLED PassStep(p))
    /\ []( sweep.pc \in {"query", "loop"} =>
             \/ ENABLED SweepSteps
             \/ sweep.cur # 0 /\ pass[sweep.cur].pc \notin {"idle", "done"} )

\* stopAllAutomations returned while a pass of the sweep, begun by the interval
\* that is now cleared, has written its first change and has one more to write
C29_Witness ==
    /\ lastCall.op = "stopAllAutomations"
    /\ jobs = << >> /\ changeCheckInterval = 0
    /\ \A i \in DOMAIN intervals : ~intervals[i]
    /\ \A t \in DOMAIN timers : ~timers[t].running
    /\ Len(timers) >= 1
    /\ sweep.pc = "loop" /\ sweep.cur # 0
    /\ pass[sweep.cur].pc = "process" /\ pass[sweep.cur].idx = 2
    /\ Cardinality(DOMAIN store) = 1

(***************************************************************************)
(* Properties of the startup.                                              *)
(***************************************************************************)
\* how the start of user u during the startup ended
BootOutcome(u) ==
    LET i == CHOOSE j \in DOMAIN boot.attempted : boot.attempted[j].user = u
    IN  boot.attempted[i].op

\* when startAllAutomations installs the global interval and returns: a start
\* has been attempted for every user of the enumeration, in its order, and the
\* interval is installed in that step and not before
BootOrder ==
    /\ [ i \in DOMAIN boot.attempted |-> boot.attempted[i].user ] = boot.queried
    /\ changeCheckInterval = 0 /\ intervals = << >>
    /\ changeCheckInterval' # 0 /\ intervals'[changeCheckInterval']

C31_UserScoping ==
    [][ \A p \in PassIds :
          StepOf(p) =>
            /\ DOMAIN store \subseteq DOMAIN store'
            /\ \A k \in DOMAIN store' :
                 \/ k \in DOMAIN store /\ store'[k] = store[k]
                 \/ k[1] = pass[p].user /\ store'[k].user_id = pass[p].user ]_vars

\* passes of two users are writing back together, and the table already holds
\* rows of both users under the same event id
C31_Witness ==
    /\ pass[1].user # pass[2].user
    /\ \A p \in PassIds : pass[p].pc \in {"process", "upsert"}
    /\ \A u \in Users : Key(u, "e1") \in DOMAIN store
    /\ store[Key(1, "e1")] # store[Key(2, "e1")]

\* the remote event the write of pass p is for
Written(p) == GoogleEvent(p, pass[p].changes[pass[p].idx].id)

\* C32. Status domain: when a pass has handled the write of a remote event, the
\* event's row is in the table with the status the normalization gives it: one
\* of CONFIRMED, TENTATIVE, CANCELLED, and CONFIRMED when the remote status is
\* absent or not recognized.
C32_StatusDomain ==
    [][ \A p \in PassIds :
          pass[p].pc = "upsert" /\ StepOf(p) =>
            LET k == Key(pass[p].user, Written(p).id)
            IN  /\ k \in DOMAIN store'
                /\ store'[k].status = mapGoogleStatus(Written(p).status) ]_vars

\* C33. Invalid intervals are rejected: no row of the table starts after its end.
C33_InvalidIntervalsRejected ==
    \A k \in DOMAIN store : store[k].start_time <= store[k].end_time

\* C34. Categorization: the event type of the row a pass writes is the one the
\* keywords of the event's summary and description give: work before personal,
\* unknown when neither set matches.
C34_Categorization ==
    [][ \A p \in PassIds :
          pass[p].pc = "upsert" /\ StepOf(p) =>
            LET k == Key(pass[p].user, Written(p).id)
            IN  k \in DOMAIN store' =>
                  ToLowerCase(store'[k].event_type)
                    = categorizeEvent(Written(p).summary, Written(p).description) ]_vars

(***************************************************************************)
(* Properties of the global interval and of concurrent starts.             *)
(***************************************************************************)
\* the setInterval handles that can still fire a sweep
LiveIntervals == { i \in DOMAIN intervals : intervals[i] }

\* C35. Single global timer: at most one change-detection interval is live, and
\* when the service holds no handle (changeDetectionActive is false) none is.
C35_SingleGlobalTimer ==
    /\ Cardinality(LiveIntervals) <= 1
    /\ changeCheckInterval = 0 => LiveIntervals = {}

\* C36. No repeated notifications: the pass that follows a sweep in which the
\* user's pass found changes, had them notified and wrote them all back, the
\* remote calendar unchanged since that pass fetched it, computes an empty
\* change list.
C36_NoRepeatedNotifications ==
    [][ \A p \in PassIds :
          ( /\ StepOf(p) /\ pass[p].pc = "read"
            /\ trig.pc = "await" /\ trig.slot = p
            /\ sweep.pc = "returned" /\ pass[p].user \in sweep.notified ) =>
              pass'[p].changes = << >> ]_vars

\* C37. A stop is not undone by an earlier start, for stopAllAutomations: when
\* a start returns that was suspended at its config read while
\* stopAllAutomations ran (no call has returned since), and no other start of
\* the user is in flight, the user has no running timer and no entry in the
\* jobs map.
C37_StopNotUndone ==
    [][ \A s \in StartIds :
          ( /\ starts[s].pc = "findById" /\ starts'[s] = IdleStart
            /\ lastCall.op = "stopAllAutomations"
            /\ \A q \in StartIds \ {s} : starts[q].user # starts[s].user ) =>
              /\ starts[s].user \notin DOMAIN jobs'
              /\ \A t \in DOMAIN timers' :
                    timers'[t].user = starts[s].user => ~timers'[t].running ]_vars

\* C38. The snapshot eventually reflects a remote edit. The test for 'modified'
\* compares the event's updated time with the row's last_modified and never
\* looks at the clock, so a pair it rejects while no pass is in flight is
\* rejected by every later pass until the event or the row changes. Hence, for
\* the edit to be reported by some later pass: whenever no pass is in flight and
\* the live row of a remote event differs in content from the event, the test
\* for 'modified' holds of the pair.
C38_EditEventuallyReflected ==
    ( \A p \in PassIds : pass[p].pc = "idle" ) =>
        \A u \in DetectUsers : \A g \in remote[u] :
            LET k == Key(u, g.id)
            IN  ( /\ k \in DOMAIN store /\ store[k].status # CANCELLED
                  /\ HasChanged(store[k], EventData(u, g)) ) =>
                    IsModified(store[k], g)

\* C39. The installed timer reflects the latest config: a user's summary time
\* changes only while a start of that user has still to read the config, so
\* once every start has returned the config row holds the value that was read
\* last; the user's running timer is scheduled at that time.
C39_TimerFromLatestRead ==
    ( \A s \in StartIds : starts[s].pc = "idle" ) =>
        \A t \in DOMAIN timers :
            timers[t].running =>
                timers[t].time = users[timers[t].user].daily_summary_time

(***************************************************************************)
(* Properties of the manual daily-summary trigger.                         *)
(***************************************************************************)
\* C40. The trigger result matches the outcome: triggerDailySummary returns
\* success = true exactly when the summary was accepted for some recipient;
\* when the user is absent or disabled, or every send failed, it returns
\* success = false with an error string.
C40_TriggerResultMatchesOutcome ==
    [][ ( /\ trig.pc = "await" /\ trig.op = "dailySummary"
          /\ trig'.pc = "returned" ) =>
            /\ trig'.result.success <=> summ[trig.slot].sendOk
            /\ ~trig'.result.success => trig'.result.error # Undefined ]_vars

====
